---- MODULE Spec2Model ----
(***************************************************************************)
(* Safe-Signal: the emergency state machine of the Dashboard component     *)
(* (src/src/components/Dashboard.jsx) with the risk engine                 *)
(* (src/src/utils/riskEngine.js) and the location helpers (utils/geo.js).  *)
(*                                                                         *)
(* Time is counted in whole seconds.  A browser timer is a record with the *)
(* seconds left until it is due; a due timer fires before time advances.   *)
(* Scores are integers: stress and motion in percent, risk in thousandths. *)
(* A state change of the component and the effects React runs for it are   *)
(* one step.  riskScore, riskLevel and the other values the component only *)
(* displays are not part of the state.                                     *)
(***************************************************************************)
EXTENDS Integers, Sequences, FiniteSets, TLC

\* ------------------------------------------------------------------ bounds
\* Largest number of countdown intervals alive at the same time.
MaxTickers == 2
\* Largest number of handleEmergency invocations followed.
MaxEmergencies == 2

\* ------------------------------------------------------- program constants
TickSeconds == 1
SustainSeconds == 5
CountdownSeconds == 5
DangerThreshold == 750
ModerateThreshold == 300
GestureWeight == 500
StressWeight == 3
MotionWeight == 2
RiskMax == 1000
PercentOfUnit == 100

\* Inputs the environment can deliver.
StressLevels == {0, 80, 100}        \* stressScore published by the audio pipeline
MockStressLevels == {0, 29}         \* detectStress(): Math.random() * 0.3
MotionLevels == {0, 19}             \* detectMotion(): Math.random() * 0.2
GestureLevels == {0, 1}
RealLocations == {[lat |-> 515074, lng |-> -1278]}

VARIABLES
    mounted,               \* the Dashboard component is on screen
    isProtectionOn, audioEnabled, gestureEnabled,
    audioStressScore,      \* useState(0), percent
    gestureScoreRef,       \* useRef(0)
    showPreAlert, countdown,
    detectionIntervalRef, highRiskTimerRef, countdownIntervalRef,
    timers,                \* id -> [kind, remaining] of the timers not yet cleared
    pendingLookups,        \* handleEmergency invocations awaiting getCurrentLocation
    emitted,               \* triggerEmergency calls, in order
    \* observation of the run
    lastEvent,             \* the operation that produced this state
    prevState,             \* MachineState before that operation
    triggered,             \* handleEmergency was invoked in this session
    cancelled,             \* cancelAlert ended the last PreAlert, none entered since
    pendingSession,        \* pending lookups that belong to this session
    sessionEmitted,        \* triggers emitted for this session
    highRiskFor,           \* seconds of the current unbroken run of high-risk ticks
    highTicks,             \* number of ticks of that run
    sinceEntry,            \* seconds since the last startCountdown
    emergencyCalls         \* handleEmergency invocations so far

progVars == <<mounted, isProtectionOn, audioEnabled, gestureEnabled,
              audioStressScore, gestureScoreRef,
              showPreAlert, countdown, detectionIntervalRef, highRiskTimerRef,
              countdownIntervalRef, timers, pendingLookups, emitted>>
obsVars == <<lastEvent, prevState, triggered, cancelled, pendingSession,
             sessionEmitted, highRiskFor, highTicks, sinceEntry, emergencyCalls>>

\* The stress inference module (src/src/utils/audio/stressInference.js).
VARIABLES
    previousStressScore,   \* module-level state of the spike limiter
    stressCall             \* observation: the last call made to the module

stressVars == <<previousStressScore, stressCall>>

\* The audio pipeline controller (utils/audio/audioPipeline.js) with the
\* temporal smoother it feeds.
VARIABLES
    now,                   \* Date.now(), ms since the page was loaded
    isRunning,
    startsPending,         \* start() calls awaiting initAudioCapture()
    processingInterval,    \* handle of the processing interval, 0 for null
    liveIntervals,         \* processing intervals set and not yet cleared
    dueIntervals,          \* those whose callback is due at the present time
    isCalibrating,
    calibrationStartTime,  \* set of at most one time, {} for null
    calibrationSamples,    \* the array by its length and the sums of its fields
    baseline,              \* set of at most one record, {} for null
    noiseSamples, noiseFloor,
    smootherSamples,       \* samples of the TemporalSmoother
    smoothedValue,
    currentStressScore,
    audioObs               \* observation: the last operation and what it emitted

audioVars == <<now, isRunning, startsPending, processingInterval, liveIntervals,
               dueIntervals, isCalibrating, calibrationStartTime, calibrationSamples,
               baseline, noiseSamples, noiseFloor, smootherSamples, smoothedValue,
               currentStressScore, audioObs>>

\* The gesture pipeline controller (src/src/utils/gesturePipeline.js).
VARIABLES
    performanceNow,        \* performance.now(), ms
    isInitialized,
    fistStartTime,         \* set of at most one time, {} for null
    gestureScore, isFist,
    framesSeen,            \* detectFrame calls so far
    fistSince,             \* observation: time of the first frame of the present
                           \* unbroken run of processed fist frames, {} outside one
    gestureObs             \* observation: the last operation and what it returned

gestureVars == <<performanceNow, isInitialized, fistStartTime, gestureScore, isFist,
                 framesSeen, fistSince, gestureObs>>

\* Everything outside the Dashboard.
\* The last call of the risk engine: its arguments and what it returned.
VARIABLES riskCall

riskVars == <<riskCall>>

\* The last call of the temporal smoother: its arguments, the smoothed value
\* before it, and the addSample calls since construction or reset() and in all.
VARIABLES smootherObs

smootherVars == <<smootherObs>>

\* The last call of extractAllFeatures: the frame and what came of it.
VARIABLES extractCall

extractVars == <<extractCall>>

\* The call issued last on the audio pipeline: "start", "stop" or "none".
VARIABLES lastIssued

raceVars == <<lastIssued>>

\* The last call of _computeFistConfidence: the landmarks and what came of them.
VARIABLES fistCall

fistVars == <<fistCall>>

compVars == <<stressVars, audioVars, gestureVars, riskVars, smootherVars, extractVars,
              fistVars, raceVars>>

vars == <<progVars, obsVars, compVars>>

\* ------------------------------------------------------------ risk engine
Min(a, b) == IF a < b THEN a ELSE b
Max(a, b) == IF a > b THEN a ELSE b

\* calculateRisk with the gesture and stress weights exchanged (0.3 and 0.5).
calculateRiskStressFirst(gesture, stress, motion) ==
    Min(Max(gesture * (StressWeight * PercentOfUnit)
            + stress * (GestureWeight \div PercentOfUnit)
            + motion * MotionWeight, 0), RiskMax)

\* calculateRisk with the stress and motion weights exchanged.
calculateRiskSwappedWeights(gesture, stress, motion) ==
    Min(Max(gesture * GestureWeight + stress * MotionWeight
            + motion * StressWeight, 0), RiskMax)

calculateRisk(gesture, stress, motion) ==
    Min(Max(gesture * GestureWeight + stress * StressWeight
            + motion * MotionWeight, 0), RiskMax)

\* getRiskLevel with the boundaries given to the lower level.
getRiskLevelLowerBoundaries(risk) ==
    IF risk <= ModerateThreshold THEN "safe"
    ELSE IF risk <= DangerThreshold THEN "moderate"
    ELSE "danger"

getRiskLevel(risk) ==
    IF risk < ModerateThreshold THEN "safe"
    ELSE IF risk < DangerThreshold THEN "moderate"
    ELSE "danger"

getMockLocation == [lat |-> 407128, lng |-> -740060]

\* ----------------------------------------------------------------- timers
\* A ref holds 0 (null), the id of a live timer, or Gone: the id of a timer
\* that was cleared or has fired.  Such an id is never handed out again, so
\* all of them behave alike: truthy, and clearing them does nothing.
Gone == -1
MaxIds == MaxTickers + 2

\* Ids are opaque to the program, so the model draws them per kind of timer:
\* the detection interval, the sustain timeout, the countdown intervals.
\* CHOOSE has no value to pick if a second detection interval or a second
\* sustain timeout is created while the first is live.
IdsOf(kind) ==
    CASE kind = "detection" -> {1}
      [] kind = "sustain" -> {2}
      [] kind = "countdown" -> 3..MaxIds

\* setInterval / setTimeout return an id no live timer has.
FreshId(T, kind) ==
    CHOOSE i \in IdsOf(kind) :
        i \notin DOMAIN T /\ \A j \in IdsOf(kind) : j < i => j \in DOMAIN T

setTimer(T, id, kind, delay) ==
    [i \in DOMAIN T \cup {id} |-> IF i = id THEN [kind |-> kind, remaining |-> delay] ELSE T[i]]

\* clearInterval / clearTimeout: no effect for null or for an id that is gone.
clearTimer(T, id) == [i \in DOMAIN T \ {id} |-> T[i]]

\* What a ref holding id denotes once the live timers are T.
Held(id, T) == IF id = 0 \/ id \in DOMAIN T THEN id ELSE Gone

\* An interval that has just fired is due again one period later.
rearm(T, id) == IF id \in DOMAIN T THEN [T EXCEPT ![id].remaining = TickSeconds] ELSE T

TimersOf(T, kind) == {i \in DOMAIN T : T[i].kind = kind}
CountdownTickers == TimersOf(timers, "countdown")
SustainPending == TimersOf(timers, "sustain") # {}

\* ---------------------------------------------------- the machine's state
MachineState ==
    IF triggered THEN "Triggered"
    ELSE IF showPreAlert THEN "PreAlert"
    ELSE IF SustainPending THEN "Sustaining"
    ELSE "Idle"

Cap(n, m) == IF n < m THEN n ELSE m

\* ------------------------------------------------------------------- Init
InitDashboard ==
    /\ mounted = TRUE
    /\ isProtectionOn = FALSE /\ audioEnabled = FALSE /\ gestureEnabled = FALSE
    /\ audioStressScore = 0 /\ gestureScoreRef = 0
    /\ showPreAlert = FALSE /\ countdown = CountdownSeconds
    /\ detectionIntervalRef = 0 /\ highRiskTimerRef = 0 /\ countdownIntervalRef = 0
    /\ timers = [i \in {} |-> [kind |-> "none", remaining |-> 0]]
    /\ pendingLookups = 0 /\ emitted = <<>>
    /\ lastEvent = "init" /\ prevState = "any"
    /\ triggered = FALSE /\ cancelled = FALSE
    /\ pendingSession = 0 /\ sessionEmitted = 0
    /\ highRiskFor = -1 /\ highTicks = 0 /\ sinceEntry = CountdownSeconds
    /\ emergencyCalls = 0

\* The steps of the state machine are recorded with the state they met;
\* a step that is none of its inputs is recorded as "other".
Observe(ev) == lastEvent' = ev /\ prevState' = MachineState
ObserveOther == lastEvent' = "other" /\ prevState' = "any"

\* All three refs after a step that leaves det, hr, cd in them.
Refs(det, hr, cd) ==
    /\ detectionIntervalRef' = Held(det, timers')
    /\ highRiskTimerRef' = Held(hr, timers')
    /\ countdownIntervalRef' = Held(cd, timers')

\* ------------------------------------------------ effects of the component
\* The detection effect: cleanup of the previous run, then the body.
\* Returns the timers and the two refs it writes.
DetectionEffect(on, T, det, hr) ==
    LET T1 == clearTimer(clearTimer(T, det), hr)
    IN  IF on
        THEN LET id == FreshId(T1, "detection")
             IN  [timers |-> setTimer(T1, id, "detection", TickSeconds), det |-> id, hr |-> hr]
        ELSE [timers |-> T1, det |-> det, hr |-> 0]

\* Both effects after isProtectionOn or audioEnabled changed.  The audio
\* effect's else branch publishes stress 0; if that changes audioStressScore
\* the component renders again and the detection effect, which depends on
\* it, runs a second time.
RunEffects(on, audio) ==
    LET stress == IF on /\ audio THEN audioStressScore ELSE 0
        e1 == DetectionEffect(on, timers, detectionIntervalRef, highRiskTimerRef)
        e2 == IF stress # audioStressScore
              THEN DetectionEffect(on, e1.timers, e1.det, e1.hr)
              ELSE e1
    IN  /\ audioStressScore' = stress
        /\ timers' = e2.timers
        /\ Refs(e2.det, e2.hr, countdownIntervalRef)

\* ------------------------------------------------------------ user inputs
ToggleProtection ==
    /\ mounted
    /\ isProtectionOn' = ~isProtectionOn
    /\ RunEffects(~isProtectionOn, audioEnabled)
    /\ UNCHANGED <<mounted, audioEnabled, gestureEnabled, gestureScoreRef, showPreAlert,
                   countdown, pendingLookups, emitted>>
    /\ lastEvent' = "toggleProtection" /\ prevState' = "any"
    /\ triggered' = FALSE /\ pendingSession' = 0 /\ sessionEmitted' = 0
    /\ UNCHANGED <<cancelled, emergencyCalls>>

ToggleAudio ==
    /\ mounted
    /\ audioEnabled' = ~audioEnabled
    /\ RunEffects(isProtectionOn, ~audioEnabled)
    /\ UNCHANGED <<mounted, isProtectionOn, gestureEnabled, gestureScoreRef, showPreAlert,
                   countdown, pendingLookups, emitted>>
    /\ ObserveOther
    /\ UNCHANGED <<triggered, cancelled, pendingSession, sessionEmitted, emergencyCalls>>

ToggleGesture ==
    /\ mounted
    /\ gestureEnabled' = ~gestureEnabled
    /\ UNCHANGED <<mounted, isProtectionOn, audioEnabled, audioStressScore, gestureScoreRef,
                   showPreAlert, countdown, detectionIntervalRef,
                   highRiskTimerRef, countdownIntervalRef, timers, pendingLookups, emitted>>
    /\ ObserveOther
    /\ UNCHANGED <<triggered, cancelled, pendingSession, sessionEmitted, emergencyCalls>>

\* ------------------------------------------------------- sensor updates
\* The audio pipeline's callback: setAudioStressScore(audioData.stressScore).
\* A changed score re-runs the detection effect.
AudioUpdate(s) ==
    /\ mounted /\ isProtectionOn /\ audioEnabled
    /\ LET e == IF s # audioStressScore
                THEN DetectionEffect(TRUE, timers, detectionIntervalRef, highRiskTimerRef)
                ELSE [timers |-> timers, det |-> detectionIntervalRef, hr |-> highRiskTimerRef]
       IN  /\ timers' = e.timers
           /\ Refs(e.det, e.hr, countdownIntervalRef)
    /\ audioStressScore' = s
    /\ UNCHANGED <<mounted, isProtectionOn, audioEnabled, gestureEnabled, gestureScoreRef,
                   showPreAlert, countdown, pendingLookups, emitted>>
    /\ ObserveOther
    /\ UNCHANGED <<triggered, cancelled, pendingSession, sessionEmitted, emergencyCalls>>

\* GestureDetector's onGestureUpdate: gestureScoreRef.current = data.gestureScore.
GestureUpdate(g) ==
    /\ mounted /\ isProtectionOn /\ gestureEnabled
    /\ gestureScoreRef' = g
    /\ UNCHANGED <<mounted, isProtectionOn, audioEnabled, gestureEnabled, audioStressScore,
                   showPreAlert, countdown, detectionIntervalRef,
                   highRiskTimerRef, countdownIntervalRef, timers, pendingLookups, emitted>>
    /\ ObserveOther
    /\ UNCHANGED <<triggered, cancelled, pendingSession, sessionEmitted, emergencyCalls>>

\* ------------------------------------------------------- detection tick
\* thresholdCheck without the else branch: a drop in risk leaves the timer.
thresholdCheckNoReset(risk, T, hr) ==
    IF risk > DangerThreshold /\ hr = 0
    THEN LET id == FreshId(T, "sustain")
         IN  [timers |-> setTimer(T, id, "sustain", SustainSeconds), hr |-> id]
    ELSE [timers |-> T, hr |-> hr]

\* The threshold check of the detection interval's callback.
thresholdCheck(risk, T, hr) ==
    IF risk > DangerThreshold
    THEN IF hr = 0
         THEN LET id == FreshId(T, "sustain")
              IN  [timers |-> setTimer(T, id, "sustain", SustainSeconds), hr |-> id]
         ELSE [timers |-> T, hr |-> hr]
    ELSE IF hr # 0
         THEN [timers |-> clearTimer(T, hr), hr |-> 0]
         ELSE [timers |-> T, hr |-> hr]

DetectionTick(id, motion, mock) ==
    /\ id \in DOMAIN timers
    /\ timers[id].kind = "detection" /\ timers[id].remaining = 0
    /\ LET gesture == gestureScoreRef
           stress == IF audioEnabled THEN audioStressScore ELSE mock
           risk == calculateRisk(gesture, stress, motion)
           c == thresholdCheck(risk, rearm(timers, id), highRiskTimerRef)
       IN  /\ timers' = c.timers
           /\ Refs(detectionIntervalRef, c.hr, countdownIntervalRef)
           /\ Observe(IF risk > DangerThreshold THEN "highTick" ELSE "lowTick")
    /\ UNCHANGED <<mounted, isProtectionOn, audioEnabled, gestureEnabled, audioStressScore,
                   gestureScoreRef, showPreAlert, countdown, pendingLookups, emitted>>
    /\ UNCHANGED <<triggered, cancelled, pendingSession, sessionEmitted, emergencyCalls>>

\* --------------------------------------------------------------- countdown
\* startCountdown without setCountdown(5).
startCountdownNoReset(T) ==
    LET id == FreshId(T, "countdown")
    IN  [countdown |-> countdown,
         timers |-> setTimer(T, id, "countdown", TickSeconds),
         cd |-> id]

\* setCountdown(5) and a new interval whose id overwrites countdownIntervalRef.
startCountdown(T) ==
    LET id == FreshId(T, "countdown")
    IN  [countdown |-> CountdownSeconds,
         timers |-> setTimer(T, id, "countdown", TickSeconds),
         cd |-> id]

\* setShowPreAlert(true); startCountdown() -- the body shared by the sustain
\* timeout's callback and handleManualPanic.
EnterPreAlert(T) ==
    /\ Cardinality(TimersOf(T, "countdown")) < MaxTickers
    /\ LET c == startCountdown(T)
       IN  /\ showPreAlert' = TRUE
           /\ countdown' = c.countdown
           /\ timers' = c.timers
           /\ Refs(detectionIntervalRef, highRiskTimerRef, c.cd)
    /\ cancelled' = FALSE
    /\ UNCHANGED <<mounted, isProtectionOn, audioEnabled, gestureEnabled, audioStressScore,
                   gestureScoreRef, pendingLookups, emitted>>
    /\ UNCHANGED <<triggered, pendingSession, sessionEmitted, emergencyCalls>>

\* The sustain timeout's callback; highRiskTimerRef keeps the id.
SustainExpire(id) ==
    /\ id \in DOMAIN timers
    /\ timers[id].kind = "sustain" /\ timers[id].remaining = 0
    /\ EnterPreAlert(clearTimer(timers, id))
    /\ Observe("sustainExpire")

handleManualPanic ==
    /\ mounted
    /\ EnterPreAlert(timers)
    /\ Observe("manualPanic")

\* The updater passed to setCountdown by the countdown interval.
countdownUpdater(prev, T, cd) ==
    IF prev <= 1
    THEN [countdown |-> 0, timers |-> clearTimer(T, cd), emergency |-> TRUE]
    ELSE [countdown |-> prev - 1, timers |-> T, emergency |-> FALSE]

CountdownTick(id) ==
    /\ id \in DOMAIN timers
    /\ timers[id].kind = "countdown" /\ timers[id].remaining = 0
    /\ mounted
    /\ LET u == countdownUpdater(countdown, rearm(timers, id), countdownIntervalRef)
       IN  /\ u.emergency => emergencyCalls < MaxEmergencies
           /\ countdown' = u.countdown
           /\ timers' = u.timers
           /\ Refs(detectionIntervalRef, highRiskTimerRef, countdownIntervalRef)
           /\ pendingLookups' = IF u.emergency THEN pendingLookups + 1 ELSE pendingLookups
           /\ pendingSession' = IF u.emergency /\ isProtectionOn
                               THEN pendingSession + 1 ELSE pendingSession
           /\ emergencyCalls' = IF u.emergency THEN emergencyCalls + 1 ELSE emergencyCalls
           /\ triggered' = (triggered \/ u.emergency)
           /\ Observe(IF u.emergency THEN "countdownExpired" ELSE "countdownTick")
    /\ UNCHANGED <<mounted, isProtectionOn, audioEnabled, gestureEnabled, audioStressScore,
                   gestureScoreRef, showPreAlert, emitted>>
    /\ UNCHANGED <<cancelled, sessionEmitted>>

\* A countdown interval that outlives the component: its setCountdown call
\* reaches no component any more.
CountdownTickUnmounted(id) ==
    /\ id \in DOMAIN timers
    /\ timers[id].kind = "countdown" /\ timers[id].remaining = 0
    /\ ~mounted
    /\ timers' = rearm(timers, id)
    /\ UNCHANGED <<mounted, isProtectionOn, audioEnabled, gestureEnabled, audioStressScore,
                   gestureScoreRef, showPreAlert, countdown,
                   detectionIntervalRef, highRiskTimerRef, countdownIntervalRef,
                   pendingLookups, emitted>>
    /\ ObserveOther
    /\ UNCHANGED <<triggered, cancelled, pendingSession, sessionEmitted, emergencyCalls>>

\* The Cancel Alert button exists only while showPreAlert is true.
cancelAlert ==
    /\ mounted /\ showPreAlert
    /\ showPreAlert' = FALSE
    /\ countdown' = CountdownSeconds
    /\ timers' = clearTimer(clearTimer(timers, countdownIntervalRef), highRiskTimerRef)
    /\ Refs(detectionIntervalRef, 0, countdownIntervalRef)
    /\ cancelled' = (cancelled \/ MachineState = "PreAlert")
    /\ UNCHANGED <<mounted, isProtectionOn, audioEnabled, gestureEnabled, audioStressScore,
                   gestureScoreRef, pendingLookups, emitted>>
    /\ Observe("cancel")
    /\ UNCHANGED <<triggered, pendingSession, sessionEmitted, emergencyCalls>>

\* --------------------------------------------------------------- emergency
\* The location handleEmergency passes on: lookup is {} when getCurrentLocation
\* rejected, {position} when it resolved.  A location is a set of at most one
\* position, {} being null.
emergencyLocationNoFallback(lookup) == lookup

emergencyLocation(lookup) == IF lookup # {} THEN lookup ELSE {getMockLocation}

LookupResults == {{l} : l \in RealLocations} \cup {{}}

\* getCurrentLocation settles; handleEmergency continues with triggerEmergency
\* and navigate('/emergency'), which unmounts the Dashboard: the cleanup of
\* its effects runs and its state and refs are discarded (they read as a
\* fresh component's).  The countdown intervals are cleared by no cleanup.
LookupSettle(lookup, ofSession) ==
    /\ IF ofSession THEN pendingSession > 0 ELSE pendingLookups > pendingSession
    /\ pendingLookups' = pendingLookups - 1
    /\ pendingSession' = IF ofSession THEN pendingSession - 1 ELSE pendingSession
    /\ sessionEmitted' = IF ofSession THEN sessionEmitted + 1 ELSE sessionEmitted
    /\ emitted' = Append(emitted, [lookup |-> lookup, location |-> emergencyLocation(lookup)])
    /\ mounted' = FALSE
    /\ timers' = IF mounted
                 THEN clearTimer(clearTimer(timers, detectionIntervalRef), highRiskTimerRef)
                 ELSE timers
    /\ isProtectionOn' = FALSE /\ audioEnabled' = FALSE /\ gestureEnabled' = FALSE
    /\ audioStressScore' = 0 /\ gestureScoreRef' = 0
    /\ showPreAlert' = FALSE /\ countdown' = CountdownSeconds
    /\ Refs(0, 0, 0)
    /\ Observe(IF lookup = {} THEN "lookupFailed" ELSE "lookupResolved")
    /\ UNCHANGED <<triggered, cancelled, emergencyCalls>>

\* -------------------------------------------------------------------- time
Advance ==
    /\ \A i \in DOMAIN timers : timers[i].remaining > 0
    /\ timers' = [i \in DOMAIN timers |-> [timers[i] EXCEPT !.remaining = @ - 1]]
    /\ UNCHANGED <<mounted, isProtectionOn, audioEnabled, gestureEnabled, audioStressScore,
                   gestureScoreRef, showPreAlert, countdown,
                   detectionIntervalRef, highRiskTimerRef, countdownIntervalRef,
                   pendingLookups, emitted>>
    /\ lastEvent' = "advance" /\ prevState' = "any"
    /\ UNCHANGED <<triggered, cancelled, pendingSession, sessionEmitted, emergencyCalls>>

Step ==
    \/ ToggleProtection
    \/ ToggleAudio
    \/ ToggleGesture
    \/ \E s \in StressLevels : AudioUpdate(s)
    \/ \E g \in GestureLevels : GestureUpdate(g)
    \/ \E id \in 1..MaxIds, m \in MotionLevels, ms \in MockStressLevels : DetectionTick(id, m, ms)
    \/ \E id \in 1..MaxIds : SustainExpire(id)
    \/ handleManualPanic
    \/ \E id \in 1..MaxIds : CountdownTick(id)
    \/ \E id \in 1..MaxIds : CountdownTickUnmounted(id)
    \/ cancelAlert
    \/ \E l \in LookupResults, b \in BOOLEAN : LookupSettle(l, b)
    \/ Advance

\* ----------------------------------------------------------- stopwatches
\* A run is an unbroken sequence of detection ticks with risk > 0.75; a tick
\* with risk <= 0.75, a cancel, a protection toggle or the unmount ends it.
\* highRiskFor
\* is the time since the first tick of the current run, -1 outside a run;
\* highTicks is the number of its ticks.
MaxRun == SustainSeconds + 1

TrackHighRisk ==
    highRiskFor' =
        CASE lastEvent' = "highTick" -> Max(highRiskFor, 0)
          [] lastEvent' \in {"lowTick", "cancel", "toggleProtection"} \/ ~mounted' -> -1
          [] lastEvent' = "advance" /\ highRiskFor >= 0 -> Cap(highRiskFor + 1, MaxRun)
          [] OTHER -> highRiskFor

TrackHighTicks ==
    highTicks' =
        CASE lastEvent' = "highTick" -> Cap(highTicks + 1, MaxRun)
          [] lastEvent' \in {"lowTick", "cancel", "toggleProtection"} \/ ~mounted' -> 0
          [] OTHER -> highTicks

\* sinceEntry: seconds since startCountdown was last called (stopped at the
\* unmount, after which no countdown tick reaches the component).
TrackEntry ==
    sinceEntry' =
        CASE lastEvent' \in {"sustainExpire", "manualPanic"} -> 0
          [] ~mounted' -> CountdownSeconds
          [] lastEvent' = "advance" -> Cap(sinceEntry + 1, CountdownSeconds)
          [] OTHER -> sinceEntry

\* ------------------------------------------------------ stress inference
\* Scores of the stress inference are in 1/10000, component scores and
\* weights in percent, RMS values and variances in thousandths, pitch and
\* centroid in Hz; a quotient is rounded down to the unit.
SPIKE_LIMIT == 1500
VAD_MIN_RMS == 10
NOISE_HIGH_THRESHOLD == 50
StressMax == 10000
PercentMax == 100
PitchStdFull == 50
RmsVarianceFull == 50
CentroidFull == 3000
MfccVarianceFull == 10
ZcrVarianceFull == 10
wPitchDefault == 30
wRMSDefault == 25
wMFCC == 20
wCentroid == 15
wZCR == 10
RmsReductionPercent == 20

Abs(x) == IF x < 0 THEN -x ELSE x

\* A feature window as computeStressScore sees it: the number of frames and
\* the statistics calculateStats and _calculateMFCCTemporalVariance give.
EmptyWindow ==
    [len |-> 0, pitchMean |-> 0, pitchStd |-> 0, rmsMean |-> 0, rmsVar |-> 0,
     centroidMean |-> 0, mfccVar |-> 0, zcrVar |-> 0]
QuietWindow ==
    [len |-> 60, pitchMean |-> 0, pitchStd |-> 0, rmsMean |-> 5, rmsVar |-> 0,
     centroidMean |-> 400, mfccVar |-> 1, zcrVar |-> 1]
CalmWindow ==
    [len |-> 60, pitchMean |-> 150, pitchStd |-> 5, rmsMean |-> 50, rmsVar |-> 1,
     centroidMean |-> 1500, mfccVar |-> 1, zcrVar |-> 1]
TenseWindow ==
    [len |-> 60, pitchMean |-> 200, pitchStd |-> 20, rmsMean |-> 100, rmsVar |-> 10,
     centroidMean |-> 2000, mfccVar |-> 4, zcrVar |-> 3]
DistressWindow ==
    [len |-> 60, pitchMean |-> 300, pitchStd |-> 60, rmsMean |-> 200, rmsVar |-> 60,
     centroidMean |-> 3000, mfccVar |-> 12, zcrVar |-> 12]
Windows == {EmptyWindow, QuietWindow, CalmWindow, TenseWindow, DistressWindow}

\* A baseline is a set of at most one record, {} being null.
Baselines == {{}, {[pitch |-> 150, rms |-> 50, centroid |-> 1500]},
              {[pitch |-> 0, rms |-> 0, centroid |-> 0]}}
NoiseFloors == {0, NOISE_HIGH_THRESHOLD, 60}

\* _applySpikeLimiter stepping by SPIKE_LIMIT on every rise (delta > 0).
applySpikeLimiterAnyRise(newScore, previous) ==
    LET delta == newScore - previous
        limited == IF delta > 0 THEN previous + SPIKE_LIMIT ELSE newScore
    IN  [returned |-> limited, previousStressScore |-> limited]

\* _applySpikeLimiter without the cap on the increase.
applySpikeLimiterNoCap(newScore, previous) ==
    [returned |-> newScore, previousStressScore |-> newScore]

\* _applySpikeLimiter limiting the decrease as it limits the increase.
applySpikeLimiterSymmetric(newScore, previous) ==
    LET delta == newScore - previous
        limited == IF delta > SPIKE_LIMIT THEN previous + SPIKE_LIMIT
                   ELSE IF delta < 0 - SPIKE_LIMIT THEN previous - SPIKE_LIMIT
                   ELSE newScore
    IN  [returned |-> limited, previousStressScore |-> limited]

\* _applySpikeLimiter: the score returned and the new previousStressScore.
applySpikeLimiter(newScore, previous) ==
    LET delta == newScore - previous
        limited == IF delta > SPIKE_LIMIT THEN previous + SPIKE_LIMIT ELSE newScore
    IN  [returned |-> limited, previousStressScore |-> limited]

\* The three scores that depend on the baseline (steps 2 and 3).
deviationScores(fm, base) ==
    IF base # {} /\ \A b \in base : b.pitch > 0 /\ b.rms > 0 /\ b.centroid > 0
    THEN LET b == CHOOSE x \in base : TRUE
         IN  [pitch |-> Min((Abs(fm.pitchMean - b.pitch) * PercentMax) \div Max(b.pitch, 1), PercentMax),
              rms |-> Min((Abs(fm.rmsMean - b.rms) * PercentMax) \div Max(b.rms, 1), PercentMax),
              centroid |-> Min((Abs(fm.centroidMean - b.centroid) * PercentMax) \div Max(b.centroid, 1), PercentMax)]
    ELSE [pitch |-> Min((fm.pitchStd * PercentMax) \div PitchStdFull, PercentMax),
          rms |-> Min((fm.rmsVar * PercentMax) \div RmsVarianceFull, PercentMax),
          centroid |-> Min((fm.centroidMean * PercentMax) \div CentroidFull, PercentMax)]

\* The noise compensation taking from the RMS weight without adding to the
\* pitch weight.
stressWeightsNoRedistribution(floor) ==
    LET rmsReduction == IF floor > NOISE_HIGH_THRESHOLD
                        THEN (wRMSDefault * RmsReductionPercent) \div PercentMax ELSE 0
    IN  [pitch |-> wPitchDefault, rms |-> wRMSDefault - rmsReduction,
         mfcc |-> wMFCC, centroid |-> wCentroid, zcr |-> wZCR]

\* The weights after the adaptive noise compensation (step 4).
stressWeights(floor) ==
    LET rmsReduction == IF floor > NOISE_HIGH_THRESHOLD
                        THEN (wRMSDefault * RmsReductionPercent) \div PercentMax ELSE 0
    IN  [pitch |-> wPitchDefault + rmsReduction, rms |-> wRMSDefault - rmsReduction,
         mfcc |-> wMFCC, centroid |-> wCentroid, zcr |-> wZCR]

\* The weights a call computes: none where the function returns early.
weightsUsed(fm, floor) ==
    IF fm.len = 0 \/ fm.rmsMean < VAD_MIN_RMS THEN {} ELSE {stressWeights(floor)}

\* clampedScore of computeStressScore, 0 where the function returns early.
clampedScore(fm, base, floor) ==
    IF fm.len = 0 \/ fm.rmsMean < VAD_MIN_RMS
    THEN 0
    ELSE LET d == deviationScores(fm, base)
             w == stressWeights(floor)
             mfccScore == Min((fm.mfccVar * PercentMax) \div MfccVarianceFull, PercentMax)
             zcrScore == Min((fm.zcrVar * PercentMax) \div ZcrVarianceFull, PercentMax)
             rawScore == d.pitch * w.pitch + d.rms * w.rms + mfccScore * w.mfcc
                         + d.centroid * w.centroid + zcrScore * w.zcr
         IN  Max(0, Min(StressMax, rawScore))

computeStressScore(fm, base, floor, previous) ==
    applySpikeLimiter(clampedScore(fm, base, floor), previous)

InitStress ==
    /\ previousStressScore = 0
    /\ stressCall = [op |-> "none", previous |-> 0, clamped |-> 0, returned |-> 0,
                     floor |-> 0, weights |-> {}]

\* A call of computeStressScore by any caller.
ComputeStressScore(fm, base, floor) ==
    LET r == computeStressScore(fm, base, floor, previousStressScore)
    IN  /\ previousStressScore' = r.previousStressScore
        /\ stressCall' = [op |-> "compute", previous |-> previousStressScore,
                          clamped |-> clampedScore(fm, base, floor),
                          returned |-> r.returned,
                          floor |-> floor, weights |-> weightsUsed(fm, floor)]

resetStressState ==
    /\ previousStressScore' = 0
    /\ stressCall' = [op |-> "reset", previous |-> previousStressScore,
                      clamped |-> 0, returned |-> 0, floor |-> 0, weights |-> {}]

StepStress ==
    \/ \E fm \in Windows, b \in Baselines, nf \in NoiseFloors : ComputeStressScore(fm, b, nf)
    \/ resetStressState

\* ------------------------------------------------------- audio pipeline
\* Time of the pipeline is counted in ms and advances by the period of the
\* processing interval.  The analyser delivers 2048 samples per callback, so
\* a voiced frame always leaves a rolling window of at least 1000 samples.
\* Bounds: the callbacks followed, the processing intervals alive together
\* and the start() calls awaiting the microphone together.
MaxFrames == 12
MaxIntervals == 1
MaxStarts == 1

CALIBRATION_DURATION_MS == 5000
MAX_NOISE_SAMPLES == 20
ProcessingPeriodMs == 500
SmootherWindowSeconds == 5
MsPerSecond == 1000
AlphaTenths == 3
Tenths == 10

\* RMS of the frames without voice, and the windows of the frames with voice.
SilentRMS == {60}
VoicedWindows == {CalmWindow, DistressWindow}

NoSamples == [n |-> 0, pitch |-> 0, rms |-> 0, centroid |-> 0]

RECURSIVE SeqSum(_)
SeqSum(q) == IF q = <<>> THEN 0 ELSE Head(q) + SeqSum(Tail(q))

\* _computeBaseline: the mean of each field, zeros for no samples.
computeBaseline(samples) ==
    IF samples.n = 0
    THEN [pitch |-> 0, rms |-> 0, centroid |-> 0]
    ELSE [pitch |-> samples.pitch \div samples.n,
          rms |-> samples.rms \div samples.n,
          centroid |-> samples.centroid \div samples.n]

\* calibrationSamples.push({pitch, rms, centroid}) of a window's means.
pushCalibrationSample(samples, fm) ==
    [n |-> samples.n + 1, pitch |-> samples.pitch + fm.pitchMean,
     rms |-> samples.rms + fm.rmsMean, centroid |-> samples.centroid + fm.centroidMean]

\* noiseSamples after push and pop: the newest entry is dropped, not the oldest.
pushNoiseSamplePop(q, rms) ==
    LET q1 == Append(q, rms)
    IN  IF Len(q1) > MAX_NOISE_SAMPLES THEN SubSeq(q1, 1, MAX_NOISE_SAMPLES) ELSE q1

\* noiseSamples after push and shift.
pushNoiseSample(q, rms) ==
    LET q1 == Append(q, rms)
    IN  IF Len(q1) > MAX_NOISE_SAMPLES THEN Tail(q1) ELSE q1

\* TemporalSmoother.addSample without the removal of old samples.
addSampleKeepingAll(samples, smoothed, value, timestamp) ==
    LET pushed == Append(samples, [value |-> value, timestamp |-> timestamp])
    IN  [samples |-> pushed,
         smoothedValue |-> IF Len(pushed) = 1 THEN value
                           ELSE (AlphaTenths * value + (Tenths - AlphaTenths) * smoothed) \div Tenths]

\* addSample with a closed window: a sample exactly windowSeconds old is kept.
addSampleClosedWindow(samples, smoothed, value, timestamp) ==
    LET cutoffTime == timestamp - SmootherWindowSeconds * MsPerSecond
        pushed == Append(samples, [value |-> value, timestamp |-> timestamp])
        kept == SelectSeq(pushed, LAMBDA x : x.timestamp >= cutoffTime)
    IN  [samples |-> kept,
         smoothedValue |-> IF Len(kept) = 1 THEN value
                           ELSE (AlphaTenths * value + (Tenths - AlphaTenths) * smoothed) \div Tenths]

\* TemporalSmoother.addSample: the samples and the smoothed value after it.
addSample(samples, smoothed, value, timestamp) ==
    LET cutoffTime == timestamp - SmootherWindowSeconds * MsPerSecond
        pushed == Append(samples, [value |-> value, timestamp |-> timestamp])
        kept == SelectSeq(pushed, LAMBDA x : x.timestamp > cutoffTime)
    IN  [samples |-> kept,
         smoothedValue |-> IF Len(kept) = 1 THEN value
                           ELSE (AlphaTenths * value + (Tenths - AlphaTenths) * smoothed) \div Tenths]

\* A time in arithmetic: null counts as 0.
TimeOf(t) == IF t = {} THEN 0 ELSE CHOOSE x \in t : TRUE

NoUpdate == {}
\* The argument of onStressUpdate, as a set of one record.
Update(score, calibrating, base) ==
    {[stressScore |-> score, isCalibrating |-> calibrating, baseline |-> base]}

InitAudio ==
    /\ now = 0
    /\ isRunning = FALSE /\ startsPending = 0
    /\ processingInterval = 0 /\ liveIntervals = {} /\ dueIntervals = {}
    /\ isCalibrating = FALSE /\ calibrationStartTime = {}
    /\ calibrationSamples = NoSamples /\ baseline = {}
    /\ noiseSamples = <<>> /\ noiseFloor = 0
    /\ smootherSamples = <<>> /\ smoothedValue = 0
    /\ currentStressScore = 0
    /\ audioObs = [op |-> "none", wasCalibrating |-> FALSE, inferred |-> FALSE,
                   update |-> NoUpdate]

Observed(op, wasCalibrating, inferred, update) ==
    audioObs' = [op |-> op, wasCalibrating |-> wasCalibrating, inferred |-> inferred,
                 update |-> update]

\* start() up to its await: nothing is written before initAudioCapture()
\* settles.  A call on a running pipeline returns at once.
startUpTo(limit) ==
    /\ ~isRunning
    /\ startsPending < limit
    /\ startsPending' = startsPending + 1
    /\ Observed("start", isCalibrating, FALSE, NoUpdate)
    /\ UNCHANGED <<now, isRunning, processingInterval, liveIntervals, dueIntervals,
                   isCalibrating, calibrationStartTime, calibrationSamples, baseline,
                   noiseSamples, noiseFloor, smootherSamples, smoothedValue,
                   currentStressScore, stressVars>>

start == startUpTo(MaxStarts)

\* start() after initAudioCapture() resolved: the calibration phase begins,
\* the initial update is emitted and the processing interval is set, for at
\* most limit intervals at a time.
startResolvedUpTo(limit) ==
    /\ startsPending > 0
    /\ Cardinality(liveIntervals) < limit
    /\ startsPending' = startsPending - 1
    /\ isRunning' = TRUE
    /\ isCalibrating' = TRUE
    /\ calibrationStartTime' = {now}
    /\ calibrationSamples' = NoSamples
    /\ baseline' = {}
    /\ LET id == CHOOSE i \in 1..limit : i \notin liveIntervals
       IN  /\ processingInterval' = id
           /\ liveIntervals' = liveIntervals \cup {id}
    /\ Observed("started", isCalibrating, FALSE, Update(0, TRUE, {}))
    /\ UNCHANGED <<now, dueIntervals, noiseSamples, noiseFloor, smootherSamples,
                   smoothedValue, currentStressScore, stressVars>>

startResolved == startResolvedUpTo(MaxIntervals)

\* start() after initAudioCapture() rejected: the error is thrown on.
startRejected ==
    /\ startsPending > 0
    /\ startsPending' = startsPending - 1
    /\ Observed("startRejected", isCalibrating, FALSE, NoUpdate)
    /\ UNCHANGED <<now, isRunning, processingInterval, liveIntervals, dueIntervals,
                   isCalibrating, calibrationStartTime, calibrationSamples, baseline,
                   noiseSamples, noiseFloor, smootherSamples, smoothedValue,
                   currentStressScore, stressVars>>

\* processAudioFrame on a frame without voice: noise floor tracking, score 0.
silentFrame(rms) ==
    /\ noiseSamples' = pushNoiseSample(noiseSamples, rms)
    /\ noiseFloor' = SeqSum(noiseSamples') \div Len(noiseSamples')
    /\ currentStressScore' = 0
    /\ Observed("silentFrame", isCalibrating, FALSE, Update(0, isCalibrating, baseline))
    /\ UNCHANGED <<isCalibrating, calibrationSamples, baseline, smootherSamples,
                   smoothedValue, stressVars>>

\* Scoring that keeps calibrating: every scored frame is pushed to
\* calibrationSamples and the baseline is computed again.
scoringFrameRollingBaseline(fm) ==
    LET samples == pushCalibrationSample(calibrationSamples, fm)
        base == {computeBaseline(samples)}
        r == computeStressScore(fm, base, noiseFloor, previousStressScore)
        sm == addSample(smootherSamples, smoothedValue, r.returned, now)
    IN  /\ calibrationSamples' = samples
        /\ baseline' = base
        /\ previousStressScore' = r.previousStressScore
        /\ stressCall' = [op |-> "compute", previous |-> previousStressScore,
                          clamped |-> clampedScore(fm, base, noiseFloor),
                          returned |-> r.returned,
                          floor |-> noiseFloor, weights |-> weightsUsed(fm, noiseFloor)]
        /\ smootherSamples' = sm.samples
        /\ smoothedValue' = sm.smoothedValue
        /\ currentStressScore' = sm.smoothedValue
        /\ Observed("scoringFrame", isCalibrating, TRUE,
                    Update(sm.smoothedValue, isCalibrating, base))
        /\ UNCHANGED <<isCalibrating, noiseSamples, noiseFloor>>

\* processAudioFrame on a voiced frame after calibration: inference and
\* smoothing.
scoringFrame(fm) ==
    LET r == computeStressScore(fm, baseline, noiseFloor, previousStressScore)
        sm == addSample(smootherSamples, smoothedValue, r.returned, now)
    IN  /\ previousStressScore' = r.previousStressScore
        /\ stressCall' = [op |-> "compute", previous |-> previousStressScore,
                          clamped |-> clampedScore(fm, baseline, noiseFloor),
                          returned |-> r.returned,
                          floor |-> noiseFloor, weights |-> weightsUsed(fm, noiseFloor)]
        /\ smootherSamples' = sm.samples
        /\ smoothedValue' = sm.smoothedValue
        /\ currentStressScore' = sm.smoothedValue
        /\ Observed("scoringFrame", isCalibrating, TRUE,
                    Update(sm.smoothedValue, isCalibrating, baseline))
        /\ UNCHANGED <<isCalibrating, calibrationSamples, baseline, noiseSamples, noiseFloor>>

\* The calibration phase left out: a voiced frame is scored at once.
calibrationFrameUngated(fm) == scoringFrame(fm)

\* The calibration branch publishing before it completes the calibration: the
\* update carries the values the frame found.
calibrationFramePublishingFirst(fm) ==
    LET elapsed == now - TimeOf(calibrationStartTime)
        samples == pushCalibrationSample(calibrationSamples, fm)
        complete == elapsed >= CALIBRATION_DURATION_MS
    IN  /\ calibrationSamples' = samples
        /\ baseline' = IF complete THEN {computeBaseline(samples)} ELSE baseline
        /\ isCalibrating' = ~complete
        /\ currentStressScore' = 0
        /\ Observed("calibrationFrame", isCalibrating, FALSE, Update(0, isCalibrating, baseline))
        /\ UNCHANGED <<noiseSamples, noiseFloor, smootherSamples, smoothedValue, stressVars>>

\* processAudioFrame on a voiced frame during the calibration phase.
calibrationFrame(fm) ==
    LET elapsed == now - TimeOf(calibrationStartTime)
        samples == pushCalibrationSample(calibrationSamples, fm)
        complete == elapsed >= CALIBRATION_DURATION_MS
    IN  /\ calibrationSamples' = samples
        /\ baseline' = IF complete THEN {computeBaseline(samples)} ELSE baseline
        /\ isCalibrating' = ~complete
        /\ currentStressScore' = 0
        /\ Observed("calibrationFrame", isCalibrating, FALSE, Update(0, ~complete, baseline'))
        /\ UNCHANGED <<noiseSamples, noiseFloor, smootherSamples, smoothedValue, stressVars>>

\* The callback of a processing interval.  frame is <<"silent", rms>> or
\* <<"voiced", window>>.
processAudioFrame(id, frame) ==
    /\ id \in dueIntervals
    /\ dueIntervals' = dueIntervals \ {id}
    /\ IF ~isRunning
       THEN /\ Observed("idleFrame", isCalibrating, FALSE, NoUpdate)
            /\ UNCHANGED <<isCalibrating, calibrationSamples, baseline, noiseSamples,
                           noiseFloor, smootherSamples, smoothedValue,
                           currentStressScore, stressVars>>
       ELSE IF frame[1] = "silent"
            THEN silentFrame(frame[2])
            ELSE IF isCalibrating
                 THEN calibrationFrame(frame[2])
                 ELSE scoringFrame(frame[2])
    /\ UNCHANGED <<now, isRunning, startsPending, processingInterval, liveIntervals,
                   calibrationStartTime>>

Frames == {<<"silent", r>> : r \in SilentRMS} \cup {<<"voiced", w>> : w \in VoicedWindows}

\* stop() that leaves the smoother and the noise floor as they are.
stopKeepingTrackers ==
    /\ isRunning
    /\ isRunning' = FALSE
    /\ liveIntervals' = liveIntervals \ {processingInterval}
    /\ dueIntervals' = dueIntervals \ {processingInterval}
    /\ processingInterval' = 0
    /\ UNCHANGED <<smootherSamples, smoothedValue>>
    /\ currentStressScore' = 0
    /\ isCalibrating' = FALSE
    /\ calibrationStartTime' = {}
    /\ calibrationSamples' = NoSamples
    /\ baseline' = {}
    /\ UNCHANGED <<noiseSamples, noiseFloor>>
    /\ resetStressState
    /\ Observed("stop", isCalibrating, FALSE, NoUpdate)
    /\ UNCHANGED <<now, startsPending>>

\* stop() on a running pipeline; on a pipeline that is not running it returns
\* at once.
stop ==
    /\ isRunning
    /\ isRunning' = FALSE
    /\ liveIntervals' = liveIntervals \ {processingInterval}
    /\ dueIntervals' = dueIntervals \ {processingInterval}
    /\ processingInterval' = 0
    /\ smootherSamples' = <<>> /\ smoothedValue' = 0
    /\ currentStressScore' = 0
    /\ isCalibrating' = FALSE
    /\ calibrationStartTime' = {}
    /\ calibrationSamples' = NoSamples
    /\ baseline' = {}
    /\ noiseSamples' = <<>> /\ noiseFloor' = 0
    /\ resetStressState
    /\ Observed("stop", isCalibrating, FALSE, NoUpdate)
    /\ UNCHANGED <<now, startsPending>>

\* Half a second passes once every due callback has run, for at most limit
\* periods.
advanceUpTo(limit) ==
    /\ dueIntervals = {}
    /\ now < limit * ProcessingPeriodMs
    /\ now' = now + ProcessingPeriodMs
    /\ dueIntervals' = liveIntervals
    /\ Observed("advance", isCalibrating, FALSE, NoUpdate)
    /\ UNCHANGED <<isRunning, startsPending, processingInterval, liveIntervals,
                   isCalibrating, calibrationStartTime, calibrationSamples, baseline,
                   noiseSamples, noiseFloor, smootherSamples, smoothedValue,
                   currentStressScore, stressVars>>

AdvanceAudio == advanceUpTo(MaxFrames)

StepAudio ==
    \/ start
    \/ startResolved
    \/ startRejected
    \/ \E id \in 1..MaxIntervals, f \in Frames : processAudioFrame(id, f)
    \/ stop
    \/ AdvanceAudio

\* The pipeline followed long enough for the noise queue to fill, on frames
\* without voice: most of the usual RMS, a few of another RMS.  Bounds: the
\* callbacks followed and the frames of another RMS the queue holds at a
\* time.
MaxNoiseFrames == 22
MaxOddNoise == 2
OddRMS == {0}

OddCount(q) == Cardinality({i \in DOMAIN q : q[i] \in OddRMS})

NoiseFrames ==
    {<<"silent", r>> : r \in SilentRMS \cup {r \in OddRMS : OddCount(noiseSamples) < MaxOddNoise}}

AdvanceNoise == advanceUpTo(MaxNoiseFrames)

\* start() is called only while no earlier call is pending or running.
StepNoise ==
    \/ (startsPending = 0 /\ liveIntervals = {} /\ start)
    \/ startResolved
    \/ \E id \in 1..MaxIntervals, f \in NoiseFrames : processAudioFrame(id, f)
    \/ stop
    \/ AdvanceNoise

\* ------------------------------------------------------ temporal smoother
\* The smoother on its own: samples of any value, any time apart.  Bound: the
\* addSample calls followed.
MaxSmootherSamples == 4
SampleGaps == {0, 2500, 5000}
SampleValues == {0, 4000, StressMax}

InitSmoother ==
    smootherObs = [op |-> "none", value |-> 0, timestamp |-> 0, before |-> 0,
                   adds |-> 0, calls |-> 0, trending |-> FALSE]

\* smoother.addSample(value, timestamp), gap ms after the previous call.
AddSample(value, gap) ==
    LET sm == addSample(smootherSamples, smoothedValue, value, now + gap)
    IN  /\ smootherObs.calls < MaxSmootherSamples
        /\ now' = now + gap
        /\ smootherSamples' = sm.samples
        /\ smoothedValue' = sm.smoothedValue
        /\ smootherObs' = [op |-> "addSample", value |-> value, timestamp |-> now + gap,
                           before |-> smoothedValue, adds |-> smootherObs.adds + 1,
                           calls |-> smootherObs.calls + 1, trending |-> FALSE]
        /\ UNCHANGED <<isRunning, startsPending, processingInterval, liveIntervals,
                       dueIntervals, isCalibrating, calibrationStartTime,
                       calibrationSamples, baseline, noiseSamples, noiseFloor,
                       currentStressScore, audioObs, stressVars>>

\* smoother.reset()
ResetSmoother ==
    /\ smootherObs.adds > 0
    /\ smootherSamples' = <<>>
    /\ smoothedValue' = 0
    /\ smootherObs' = [smootherObs EXCEPT !.op = "reset", !.adds = 0]
    /\ UNCHANGED <<now, isRunning, startsPending, processingInterval, liveIntervals,
                   dueIntervals, isCalibrating, calibrationStartTime,
                   calibrationSamples, baseline, noiseSamples, noiseFloor,
                   currentStressScore, audioObs, stressVars>>

\* isTrendingUp accepting equal values.
isTrendingUpNonStrict(samples) ==
    IF Len(samples) < 3 THEN FALSE
    ELSE LET recent == SubSeq(samples, Len(samples) - 2, Len(samples))
         IN  recent[3].value >= recent[2].value /\ recent[2].value >= recent[1].value

\* TemporalSmoother.isTrendingUp on the samples held (recent = slice(-3)).
isTrendingUp(samples) ==
    IF Len(samples) < 3 THEN FALSE
    ELSE LET recent == SubSeq(samples, Len(samples) - 2, Len(samples))
         IN  recent[3].value > recent[2].value /\ recent[2].value > recent[1].value

\* smoother.isTrendingUp()
IsTrendingUp ==
    /\ smootherObs.op # "isTrendingUp"
    /\ smootherObs' = [smootherObs EXCEPT !.op = "isTrendingUp",
                                          !.trending = isTrendingUp(smootherSamples)]
    /\ UNCHANGED <<now, isRunning, startsPending, processingInterval, liveIntervals,
                   dueIntervals, isCalibrating, calibrationStartTime,
                   calibrationSamples, baseline, noiseSamples, noiseFloor,
                   smootherSamples, smoothedValue, currentStressScore, audioObs,
                   stressVars>>

StepSmoother ==
    \/ \E value \in SampleValues, gap \in SampleGaps : AddSample(value, gap)
    \/ ResetSmoother
    \/ IsTrendingUp

\* The pipeline followed past the calibration, on frames of a distressed
\* voice and frames without voice.  Bound: the callbacks followed.
MaxPublishFrames == 13
PublishFrames == {<<"silent", r>> : r \in SilentRMS} \cup {<<"voiced", DistressWindow>>}

AdvancePublish == advanceUpTo(MaxPublishFrames)

\* start() is called only while no earlier call is pending or running.
StepPublish ==
    \/ (startsPending = 0 /\ liveIntervals = {} /\ start)
    \/ startResolved
    \/ \E id \in 1..MaxIntervals, f \in PublishFrames : processAudioFrame(id, f)
    \/ stop
    \/ AdvancePublish

\* start() and stop() called in any order, calls of start() overlapping.
\* Bounds: the start() calls awaiting the microphone at a time, the
\* processing intervals set at a time, and the callbacks followed.
MaxRaceStarts == 2
MaxRaceIntervals == 2
MaxRaceFrames == 2

InitRace == lastIssued = "none"

RaceStart ==
    /\ startUpTo(MaxRaceStarts)
    /\ lastIssued' = "start"

\* stop() on a pipeline that is not running: if (!this.isRunning) return.
stopNotRunning ==
    /\ ~isRunning
    /\ Observed("stopNotRunning", isCalibrating, FALSE, NoUpdate)
    /\ UNCHANGED <<now, isRunning, startsPending, processingInterval, liveIntervals,
                   dueIntervals, isCalibrating, calibrationStartTime, calibrationSamples,
                   baseline, noiseSamples, noiseFloor, smootherSamples, smoothedValue,
                   currentStressScore, stressVars>>

RaceStop ==
    /\ stop \/ stopNotRunning
    /\ lastIssued' = "stop"

StepRace ==
    \/ RaceStart
    \/ RaceStop
    \/ /\ \/ startResolvedUpTo(MaxRaceIntervals)
          \/ startRejected
          \/ \E id \in 1..MaxRaceIntervals, f \in Frames : processAudioFrame(id, f)
          \/ advanceUpTo(MaxRaceFrames)
       /\ UNCHANGED lastIssued

\* ------------------------------------------------------ feature extractor
\* A frame is malformed (null) or an array of samples, in thousandths.  A
\* number that can be NaN is a set of at most one integer, {} being NaN.
\* Bound: the length of a frame.
MaxFrameLen == 4
SampleAmplitudes == {-500, 0, 500}
NumMFCC == 40
MinPitchHz == 80
MaxPitchHz == 400
SampleRate == 16000

MalformedFrame == [ok |-> FALSE, samples |-> <<>>]
FramesOfLength(n) == {[ok |-> TRUE, samples |-> q] : q \in [1..n -> SampleAmplitudes]}
ExtractorFrames == {MalformedFrame} \cup UNION {FramesOfLength(n) : n \in 0..MaxFrameLen}

Isqrt(x) == CHOOSE r \in 0..x : r * r <= x /\ (r + 1) * (r + 1) > x

\* a / n in floating point for a >= 0: 0 / 0 is NaN.
Quotient(a, n) == IF n = 0 THEN {} ELSE {a \div n}

\* extractMFCC: the coefficients Meyda gives (meyda = "ok", taken as 1 each),
\* or 40 zeros when Meyda throws or gives nothing.
extractMFCC(frame, meyda) ==
    IF frame.ok /\ meyda = "ok" THEN [i \in 1..NumMFCC |-> 1] ELSE [i \in 1..NumMFCC |-> 0]

\* extractPitch: frame.length throws on a malformed frame; a frame shorter
\* than twice the smallest lag tries no lag and gives 0.
extractPitch(frame) ==
    IF ~frame.ok THEN [threw |-> TRUE, value |-> 0]
    ELSE [threw |-> FALSE,
          value |-> IF 2 * (SampleRate \div MaxPitchHz) >= Len(frame.samples) THEN 0
                    ELSE SampleRate \div MinPitchHz]

\* extractRMS: Math.sqrt(sumSquares / frame.length)
extractRMS(frame) ==
    {Isqrt(m) : m \in Quotient(SeqSum([i \in DOMAIN frame.samples |->
                                          frame.samples[i] * frame.samples[i]]),
                               Len(frame.samples))}

\* extractZCR: zeroCrossings / frame.length, in percent.
extractZCR(frame) ==
    LET crossings == {i \in 2..Len(frame.samples) :
                        \/ (frame.samples[i] >= 0 /\ frame.samples[i - 1] < 0)
                        \/ (frame.samples[i] < 0 /\ frame.samples[i - 1] >= 0)}
    IN  Quotient(Cardinality(crossings) * PercentMax, Len(frame.samples))

\* extractSpectralCentroid: what Meyda gives (taken as 1000 Hz), or 0 when it
\* throws.
extractSpectralCentroid(frame, meyda) ==
    IF frame.ok /\ meyda = "ok" THEN 1000 ELSE 0

\* extractAllFeatures: the features, or the exception of the first
\* extractor that throws.
extractAllFeatures(frame, meyda) ==
    IF extractPitch(frame).threw
    THEN [threw |-> TRUE, mfcc |-> extractMFCC(frame, meyda), pitch |-> 0, rms |-> {0},
          zcr |-> {0}, spectralCentroid |-> 0]
    ELSE [threw |-> FALSE, mfcc |-> extractMFCC(frame, meyda),
          pitch |-> extractPitch(frame).value, rms |-> extractRMS(frame),
          zcr |-> extractZCR(frame),
          spectralCentroid |-> extractSpectralCentroid(frame, meyda)]

\* What Meyda does with a frame: it throws on a malformed or empty one, and
\* may throw on any other (a length that is no power of two).
MeydaOutcomes(frame) ==
    IF ~frame.ok \/ Len(frame.samples) = 0 THEN {"throws"} ELSE {"ok", "throws"}

InitExtract ==
    extractCall = [op |-> "none", frame |-> MalformedFrame,
                   result |-> extractAllFeatures([ok |-> TRUE, samples |-> <<0>>], "throws")]

\* A call extractAllFeatures(frame, sampleRate).
ExtractAllFeatures(frame, meyda) ==
    extractCall' = [op |-> "extract", frame |-> frame,
                    result |-> extractAllFeatures(frame, meyda)]

StepExtract ==
    \E frame \in ExtractorFrames : \E meyda \in MeydaOutcomes(frame) :
        ExtractAllFeatures(frame, meyda)

\* ----------------------------------------------------- gesture pipeline
\* Bound: the detectFrame calls followed.
MaxGestureFrames == 6

FIST_HOLD_DURATION_MS == 2000
FistConfidencePercent == 60
Fingertips == 4
\* Fewest curled fingertips whose share of the four exceeds 0.6.
FistCurled == 3
\* Time between two animation frames.
FrameGaps == {1, 999, 1000}
\* What the frame shows: the video not ready, no hand, or a hand with so
\* many of the four fingertips within FIST_THRESHOLD of the palm centre.
FrameViews == {[kind |-> "notReady", curled |-> 0], [kind |-> "noHand", curled |-> 0]}
                 \cup {[kind |-> "hand", curled |-> n] : n \in 0..Fingertips}

\* _computeFistConfidence with the thumb counted as a fifth fingertip.
computeFistConfidenceWithThumb(curledCount) == (curledCount * PercentMax) \div (Fingertips + 1)

\* _computeFistConfidence, in percent, from the number of curled fingertips.
computeFistConfidence(curledCount) == (curledCount * PercentMax) \div Fingertips

\* _resetFist
resetFist == [fistStartTime |-> {}, isFist |-> FALSE, gestureScore |-> 0]

\* What detectFrame returns before the pipeline or the video is ready: no
\* holdProgress property.
NoResult == [gestureScore |-> 0, isFist |-> FALSE, confidence |-> 0, holdProgress |-> {}]

\* The holdProgress the detection loop publishes: result.holdProgress || 0.
shownHoldProgress(result) ==
    IF result.holdProgress = {} THEN 0 ELSE CHOOSE x \in result.holdProgress : TRUE

InitGesture ==
    /\ performanceNow = 0
    /\ isInitialized = FALSE
    /\ fistStartTime = {} /\ gestureScore = 0 /\ isFist = FALSE
    /\ framesSeen = 0
    /\ fistSince = {}
    /\ gestureObs = [op |-> "none", view |-> [kind |-> "notReady", curled |-> 0], before |-> 0, result |-> NoResult]

\* init(), from the call to the resolution of its awaits.
initGesture ==
    /\ ~isInitialized
    /\ isInitialized' = TRUE
    /\ gestureObs' = [op |-> "init", view |-> [kind |-> "notReady", curled |-> 0], before |-> gestureScore,
                      result |-> NoResult]
    /\ UNCHANGED <<performanceNow, fistStartTime, gestureScore, isFist, framesSeen, fistSince>>

\* The hold logic of detectFrame without the reset on an open hand.
holdLogicNoReset(curledCount, t) ==
    LET began == IF fistStartTime = {} THEN {t} ELSE fistStartTime
        held == t - TimeOf(began)
    IN  IF computeFistConfidence(curledCount) > FistConfidencePercent
        THEN IF held >= FIST_HOLD_DURATION_MS
             THEN [fistStartTime |-> began, isFist |-> TRUE, gestureScore |-> 1]
             ELSE [fistStartTime |-> began, isFist |-> isFist, gestureScore |-> gestureScore]
        ELSE [fistStartTime |-> fistStartTime, isFist |-> isFist, gestureScore |-> gestureScore]

\* The 2-second hold logic of detectFrame for a detected hand at time t.
holdLogic(curledCount, t) ==
    LET began == IF fistStartTime = {} THEN {t} ELSE fistStartTime
        held == t - TimeOf(began)
    IN  IF computeFistConfidence(curledCount) > FistConfidencePercent
        THEN IF held >= FIST_HOLD_DURATION_MS
             THEN [fistStartTime |-> began, isFist |-> TRUE, gestureScore |-> 1]
             ELSE [fistStartTime |-> began, isFist |-> isFist, gestureScore |-> gestureScore]
        ELSE resetFist

\* detectFrame, called gap ms after the previous call.
detectFrame(gap, view) ==
    LET t == performanceNow + gap
    IN  /\ framesSeen < MaxGestureFrames
        /\ framesSeen' = framesSeen + 1
        /\ performanceNow' = t
        /\ UNCHANGED isInitialized
        /\ IF ~isInitialized \/ view.kind = "notReady"
           THEN /\ UNCHANGED <<fistStartTime, gestureScore, isFist, fistSince>>
                /\ gestureObs' = [op |-> "skipped", view |-> view, before |-> gestureScore,
                                  result |-> NoResult]
           ELSE IF view.kind = "noHand"
                THEN /\ fistStartTime' = resetFist.fistStartTime
                     /\ gestureScore' = resetFist.gestureScore
                     /\ isFist' = resetFist.isFist
                     /\ fistSince' = {}
                     /\ gestureObs' = [op |-> "noHand", view |-> view, before |-> gestureScore,
                                       result |-> [gestureScore |-> resetFist.gestureScore,
                                                   isFist |-> FALSE, confidence |-> 0,
                                                   holdProgress |-> {}]]
                ELSE LET h == holdLogic(view.curled, t)
                         progress == IF h.fistStartTime # {} /\ TimeOf(h.fistStartTime) # 0
                                     THEN Min(((t - TimeOf(h.fistStartTime)) * PercentMax)
                                                \div FIST_HOLD_DURATION_MS, PercentMax)
                                     ELSE 0
                     IN  /\ fistStartTime' = h.fistStartTime
                         /\ gestureScore' = h.gestureScore
                         /\ isFist' = h.isFist
                         /\ fistSince' = IF view.curled >= FistCurled
                                         THEN (IF fistSince = {} THEN {t} ELSE fistSince)
                                         ELSE {}
                         /\ gestureObs' = [op |-> "hand", view |-> view, before |-> gestureScore,
                                           result |-> [gestureScore |-> h.gestureScore,
                                                       isFist |-> h.isFist,
                                                       confidence |-> computeFistConfidence(view.curled),
                                                       holdProgress |-> {progress}]]

\* stop() of the gesture pipeline.
stopGesture ==
    /\ isInitialized
    /\ isInitialized' = FALSE
    /\ fistStartTime' = resetFist.fistStartTime
    /\ gestureScore' = resetFist.gestureScore
    /\ isFist' = resetFist.isFist
    /\ fistSince' = {}
    /\ gestureObs' = [op |-> "stop", view |-> [kind |-> "notReady", curled |-> 0], before |-> gestureScore,
                      result |-> NoResult]
    /\ UNCHANGED <<performanceNow, framesSeen>>

StepGesture ==
    \/ initGesture
    \/ \E gap \in FrameGaps, view \in FrameViews : detectFrame(gap, view)
    \/ stopGesture

\* -------------------------------------------------------------- risk engine
\* The scores a sensor can report, in percent on a grid of ScoreStep, and the
\* risk scores, in thousandths.
ScoreStep == 5
ScorePercents == {p \in 0..PercentMax : p % ScoreStep = 0}
RiskScores == 0..RiskMax

NoRiskCall == [op |-> "none", gesture |-> 0, stress |-> 0, motion |-> 0,
               risk |-> 0, level |-> "safe"]

InitRisk == riskCall = NoRiskCall

\* A call calculateRisk(gesture, stress, motion).
CalculateRisk(gesture, stress, motion) ==
    riskCall' = [NoRiskCall EXCEPT !.op = "calculateRisk", !.gesture = gesture,
                                   !.stress = stress, !.motion = motion,
                                   !.risk = calculateRisk(gesture, stress, motion)]

\* A call getRiskLevel(riskScore).
GetRiskLevel(risk) ==
    riskCall' = [NoRiskCall EXCEPT !.op = "getRiskLevel", !.risk = risk,
                                   !.level = getRiskLevel(risk)]

StepRisk ==
    \/ \E gesture \in GestureLevels, stress \in ScorePercents, motion \in ScorePercents :
          CalculateRisk(gesture, stress, motion)
    \/ \E risk \in RiskScores : GetRiskLevel(risk)

\* ----------------------------------------------------------- specifications
\* ------------------------------------------------------- fist confidence
\* _computeFistConfidence on the 21 landmarks of a hand.  Coordinates are in
\* thousandths of the normalized image; the comparison of the distance with
\* FIST_THRESHOLD is made on the squares, and on 5 times the coordinates so
\* that the mean of the five palm landmarks needs no division.
FIST_THRESHOLD == 120
FINGERTIP_INDICES == <<8, 12, 16, 20>>
PALM_INDICES == <<0, 5, 9, 13, 17>>
LandmarkIndices == 0..20
ThumbIndices == {1, 2, 3, 4}

Point(px, py) == [x |-> px, y |-> py]

\* The sums the first loop accumulates in px and py.
RECURSIVE palmSum(_, _)
palmSum(landmarks, indices) ==
    IF indices = <<>> THEN Point(0, 0)
    ELSE LET rest == palmSum(landmarks, Tail(indices))
         IN  Point(landmarks[Head(indices)].x + rest.x, landmarks[Head(indices)].y + rest.y)

\* dist < FIST_THRESHOLD for the tip and the palm centre sum / n.
withinThreshold(tip, sum, n) ==
    (n * tip.x - sum.x) * (n * tip.x - sum.x) + (n * tip.y - sum.y) * (n * tip.y - sum.y)
        < (n * FIST_THRESHOLD) * (n * FIST_THRESHOLD)

\* The second loop: the fingertips of tips counted in curledCount.
RECURSIVE countWithin(_, _, _)
countWithin(landmarks, tips, sum) ==
    IF tips = <<>> THEN 0
    ELSE (IF withinThreshold(landmarks[Head(tips)], sum, Len(PALM_INDICES)) THEN 1 ELSE 0)
         + countWithin(landmarks, Tail(tips), sum)

\* curledCount with the thumb tip among the fingertips.
countCurledWithThumb(landmarks) ==
    countWithin(landmarks, <<4>> \o FINGERTIP_INDICES, palmSum(landmarks, PALM_INDICES))

\* curledCount at the end of _computeFistConfidence.
countCurled(landmarks) ==
    countWithin(landmarks, FINGERTIP_INDICES, palmSum(landmarks, PALM_INDICES))

\* _computeFistConfidence(landmarks), in percent.
fistConfidence(landmarks) == computeFistConfidence(countCurled(landmarks))

\* The hands followed: three layouts of the palm landmarks (all at one
\* point, spread around it, and with a centre off the grid), each fingertip
\* close to the centre, 0.12 from it, close on a diagonal or far, the thumb
\* on the palm or stretched out, the other joints at the centre.
PalmLayouts ==
    {[i \in {0, 5, 9, 13, 17} |-> Point(500, 500)],
     (0 :> Point(500, 700)) @@ (5 :> Point(400, 450)) @@ (9 :> Point(500, 450))
        @@ (13 :> Point(600, 450)) @@ (17 :> Point(500, 450)),
     (0 :> Point(500, 701)) @@ (5 :> Point(400, 450)) @@ (9 :> Point(500, 450))
        @@ (13 :> Point(600, 450)) @@ (17 :> Point(500, 450))}
TipPositions == {Point(500, 450), Point(500, 380), Point(560, 400), Point(500, 100)}
ThumbPositions == {Point(500, 500), Point(100, 100)}
Hands ==
    {[i \in LandmarkIndices |->
         IF i \in DOMAIN palm THEN palm[i]
         ELSE IF i \in DOMAIN tips THEN tips[i]
         ELSE IF i \in ThumbIndices THEN thumb
         ELSE Point(500, 500)] :
       palm \in PalmLayouts, tips \in [{8, 12, 16, 20} -> TipPositions],
       thumb \in ThumbPositions}

InitFist ==
    fistCall = [op |-> "none", landmarks |-> [i \in LandmarkIndices |-> Point(0, 0)],
                confidence |-> 0, currentlyFist |-> FALSE]

\* detectFrame on a detected hand, up to currentlyFist.
ComputeFistConfidence(landmarks) ==
    LET fistConf == fistConfidence(landmarks)
    IN  fistCall' = [op |-> "computeFistConfidence", landmarks |-> landmarks,
                     confidence |-> fistConf,
                     currentlyFist |-> fistConf > FistConfidencePercent]

StepFist == \E landmarks \in Hands : ComputeFistConfidence(landmarks)

Init ==
    InitDashboard /\ InitStress /\ InitAudio /\ InitGesture /\ InitRisk /\ InitSmoother
    /\ InitExtract /\ InitFist /\ InitRace

Next == Step /\ UNCHANGED <<highRiskFor, highTicks, sinceEntry>> /\ UNCHANGED compVars
NextSustain == Step /\ TrackHighRisk /\ UNCHANGED <<highTicks, sinceEntry>> /\ UNCHANGED compVars
NextTicks == Step /\ TrackHighRisk /\ TrackHighTicks /\ UNCHANGED sinceEntry /\ UNCHANGED compVars
NextCountdown == Step /\ TrackEntry /\ UNCHANGED <<highRiskFor, highTicks>> /\ UNCHANGED compVars
NextStress == StepStress /\ UNCHANGED <<progVars, obsVars, audioVars, gestureVars, riskVars, smootherVars, extractVars, fistVars, raceVars>>
NextAudio == StepAudio /\ UNCHANGED <<progVars, obsVars, gestureVars, riskVars, smootherVars, extractVars, fistVars, raceVars>>
NextNoise == StepNoise /\ UNCHANGED <<progVars, obsVars, gestureVars, riskVars, smootherVars, extractVars, fistVars, raceVars>>
NextPublish == StepPublish /\ UNCHANGED <<progVars, obsVars, gestureVars, riskVars, smootherVars, extractVars, fistVars, raceVars>>
NextRace == StepRace /\ UNCHANGED <<progVars, obsVars, gestureVars, riskVars, smootherVars, extractVars, fistVars>>
NextSmoother == StepSmoother /\ UNCHANGED <<progVars, obsVars, gestureVars, riskVars, extractVars, fistVars, raceVars>>
NextExtract ==
    StepExtract /\ UNCHANGED <<progVars, obsVars, stressVars, audioVars, gestureVars, riskVars, smootherVars, fistVars, raceVars>>
NextGesture == StepGesture /\ UNCHANGED <<progVars, obsVars, stressVars, audioVars, riskVars, smootherVars, extractVars, fistVars, raceVars>>
NextRisk == StepRisk /\ UNCHANGED <<progVars, obsVars, stressVars, audioVars, gestureVars, smootherVars, extractVars, fistVars, raceVars>>
NextFist == StepFist /\ UNCHANGED <<progVars, obsVars, stressVars, audioVars, gestureVars, riskVars, smootherVars, extractVars, raceVars>>

Spec == Init /\ [][Next]_vars
SpecSustain == Init /\ [][NextSustain]_vars
SpecTicks == Init /\ [][NextTicks]_vars
SpecCountdown == Init /\ [][NextCountdown]_vars
SpecStress == Init /\ [][NextStress]_vars
SpecAudio == Init /\ [][NextAudio]_vars
SpecNoise == Init /\ [][NextNoise]_vars
SpecPublish == Init /\ [][NextPublish]_vars
SpecRace == Init /\ [][NextRace]_vars
SpecSmoother == Init /\ [][NextSmoother]_vars
SpecExtract == Init /\ [][NextExtract]_vars
SpecGesture == Init /\ [][NextGesture]_vars
SpecRisk == Init /\ [][NextRisk]_vars
SpecFist == Init /\ [][NextFist]_vars

\* ------------------------------------------------------------------ claims

\* C1: within one session (protection on, not toggled since) the emergency
\* trigger is emitted at most once.
C1_AtMostOneTrigger == sessionEmitted <= 1

\* C2: right after a cancel during PreAlert the machine is Idle, and from then
\* until PreAlert is entered again no countdown interval is left to deliver
\* ticks and no emergency is triggered.
C2_CancelStopsCountdown ==
    /\ (lastEvent = "cancel" /\ prevState = "PreAlert") => MachineState = "Idle"
    /\ cancelled => (CountdownTickers = {} /\ ~triggered)

\* C3: while the Dashboard is shown with protection on, a run of more than 5
\* detection ticks that all had risk > 0.75, not interrupted by a cancel,
\* that has lasted longer than 5 seconds has brought up the pre-alert.
C3_SustainedRiskReachesPreAlert ==
    (mounted /\ isProtectionOn /\ highRiskFor > SustainSeconds /\ highTicks > SustainSeconds)
        => showPreAlert

\* C4: the sustain timeout enters PreAlert only after 5 seconds in which every
\* detection tick had risk > 0.75, and a tick with risk <= 0.75 discards the
\* sustain timer (from Sustaining the machine is back in Idle).
C4_PreAlertNeedsSustainedRisk ==
    /\ lastEvent = "sustainExpire" => highRiskFor >= SustainSeconds
    /\ lastEvent = "lowTick" => (~SustainPending /\ highRiskTimerRef = 0)
    /\ (lastEvent = "lowTick" /\ prevState = "Sustaining") => MachineState = "Idle"

C4_Witness ==
    /\ lastEvent = "sustainExpire" /\ prevState = "Sustaining"
    /\ MachineState = "PreAlert" /\ highRiskFor >= SustainSeconds

\* C5: the emergency is triggered no earlier than 5 seconds after the most
\* recent entry to PreAlert.
C5_FullCancellationWindow ==
    lastEvent = "countdownExpired" => sinceEntry >= CountdownSeconds

\* C6: a manual panic in Idle or Sustaining leaves the machine in PreAlert with
\* countdown = 5 and a countdown interval running, in that same step.
C6_ManualPanicEntersPreAlert ==
    (lastEvent = "manualPanic" /\ prevState \in {"Idle", "Sustaining"}) =>
        /\ MachineState = "PreAlert"
        /\ countdown = CountdownSeconds
        /\ countdownIntervalRef \in CountdownTickers

C6_Witness ==
    /\ lastEvent = "manualPanic" /\ prevState = "Sustaining"
    /\ MachineState = "PreAlert" /\ countdown = CountdownSeconds /\ SustainPending

\* C7: every handleEmergency invocation is awaiting its lookup or has emitted
\* its trigger, and every emitted trigger carries a location: the position
\* looked up, or the fallback location when the lookup failed.
C7_TriggerAlwaysLocated ==
    /\ emergencyCalls = pendingLookups + Len(emitted)
    /\ \A i \in 1..Len(emitted) :
          /\ Cardinality(emitted[i].location) = 1
          /\ emitted[i].lookup # {} => emitted[i].location = emitted[i].lookup
          /\ emitted[i].lookup = {} => emitted[i].location = {getMockLocation}

C7_Witness ==
    /\ emergencyCalls > 0 /\ pendingLookups = 0
    /\ \E i \in 1..Len(emitted) :
          emitted[i].lookup = {} /\ emitted[i].location = {getMockLocation}

\* C8: while the Dashboard shows a Triggered machine and protection stays on,
\* no step changes the state, the countdown or the pre-alert, or
\* starts a countdown interval.
C8_TriggeredIsTerminal ==
    [][(mounted /\ mounted' /\ isProtectionOn /\ isProtectionOn'
        /\ MachineState = "Triggered")
          => /\ MachineState' = "Triggered"
             /\ countdown' = countdown
             /\ showPreAlert' = showPreAlert
             /\ CountdownTickers' \subseteq CountdownTickers]_vars

\* C9: a manual panic in PreAlert or Triggered changes neither the state nor
\* the countdown nor the timers.
C9_PanicNoOpWhenAlerting ==
    [][(lastEvent' = "manualPanic" /\ MachineState \in {"PreAlert", "Triggered"})
          => /\ MachineState' = MachineState
             /\ countdown' = countdown
             /\ timers' = timers]_vars

\* C10: a cancel outside PreAlert changes neither the state nor the pending
\* sustain timer nor the countdown.
C10_CancelNoOpOutsidePreAlert ==
    [][(lastEvent' = "cancel" /\ MachineState # "PreAlert")
          => /\ MachineState' = MachineState
             /\ countdown' = countdown
             /\ TimersOf(timers', "sustain") = TimersOf(timers, "sustain")
             /\ highRiskTimerRef' = highRiskTimerRef]_vars

\* C11: switching protection off while the machine is Sustaining or in
\* PreAlert leaves no sustain timer and no countdown interval behind and puts
\* the machine back in Idle, so that nothing of the session can enter
\* PreAlert or trigger an emergency later.
C11_ProtectionOffDestroysSession ==
    [][(lastEvent' = "toggleProtection" /\ isProtectionOn
        /\ MachineState \in {"Sustaining", "PreAlert"})
          => /\ ~SustainPending'
             /\ CountdownTickers' = {}
             /\ MachineState' = "Idle"]_vars

\* C12: a computeStressScore call returns at most the previous score + 0.15,
\* returns the clamped raw score when that is not more than 0.15 above the
\* previous score, and leaves previousStressScore equal to what it returned.
C12_SpikeLimiter ==
    stressCall.op = "compute" =>
        /\ stressCall.returned <= stressCall.previous + SPIKE_LIMIT
        /\ stressCall.clamped <= stressCall.previous + SPIKE_LIMIT
              => stressCall.returned = stressCall.clamped
        /\ previousStressScore = stressCall.returned

C12_Witness ==
    /\ stressCall.op = "compute" /\ stressCall.previous > 0
    /\ stressCall.clamped > stressCall.previous + SPIKE_LIMIT
    /\ stressCall.returned = stressCall.previous + SPIKE_LIMIT
    /\ previousStressScore = stressCall.returned

\* C13: every update the audio pipeline emits while isCalibrating is true,
\* and the update of the frame that completes the calibration, carries stress
\* score 0, and no frame processed during calibration calls
\* computeStressScore.
C13_CalibrationGating ==
    /\ \A u \in audioObs.update : u.isCalibrating => u.stressScore = 0
    /\ audioObs.wasCalibrating =>
          (~audioObs.inferred /\ \A u \in audioObs.update : u.stressScore = 0)

C13_Witness ==
    /\ audioObs.op = "calibrationFrame" /\ audioObs.wasCalibrating
    /\ calibrationSamples = pushCalibrationSample(NoSamples, DistressWindow)
    /\ audioObs.update = Update(0, TRUE, {})

\* C14: when no voiced window was observed since the start of the
\* calibration, a frame processed 5 seconds or more after that start finds
\* or leaves the calibration complete, with the all-zero baseline.
C14_SilentCalibrationCompletes ==
    (/\ isRunning
     /\ audioObs.op \in {"silentFrame", "calibrationFrame", "scoringFrame"}
     /\ now - TimeOf(calibrationStartTime) >= CALIBRATION_DURATION_MS
     /\ calibrationSamples.n = 0)
        => (~isCalibrating /\ baseline = {computeBaseline(NoSamples)})

\* C18: a pipeline that is not running (never started, or stopped) has every
\* tracker in its initial state, so a session that starts finds nothing of
\* an earlier one.
C18_StopResetsTrackers ==
    ~isRunning =>
        /\ baseline = {} /\ calibrationSamples = NoSamples /\ ~isCalibrating
        /\ noiseSamples = <<>> /\ noiseFloor = 0
        /\ smootherSamples = <<>> /\ smoothedValue = 0
        /\ previousStressScore = 0 /\ currentStressScore = 0

C18_Witness ==
    /\ audioObs.op = "stop" /\ ~isRunning
    /\ stressCall.op = "reset" /\ stressCall.previous > 0
    /\ smootherSamples = <<>> /\ noiseSamples = <<>> /\ baseline = {}

\* C17: a detection tick delivered while the GestureDetector is not rendered
\* (gesture detection or protection switched off) reads gesture score 0.
C17_NoGestureCarryOver ==
    [][(lastEvent' \in {"highTick", "lowTick"} /\ ~(gestureEnabled /\ isProtectionOn))
          => gestureScoreRef = 0]_vars

\* C15: the gesture score is 1 only when every processed frame since the hold
\* started showed a fist and the hold is at least 2000 ms old; a processed
\* fist frame leaves the score at 1 exactly when the run of fist frames it
\* belongs to is 2000 ms old or older (0 at 1999 ms, 1 at 2000 ms).
C15_FistHold ==
    /\ gestureScore = 1 =>
          (fistSince # {} /\ performanceNow - TimeOf(fistSince) >= FIST_HOLD_DURATION_MS)
    /\ (gestureObs.op = "hand" /\ fistSince # {}) =>
          /\ gestureObs.result.gestureScore = gestureScore
          /\ gestureScore = 1 <=>
                performanceNow - TimeOf(fistSince) >= FIST_HOLD_DURATION_MS

C15_Witness ==
    /\ gestureObs.op = "hand" /\ fistSince # {} /\ gestureObs.before = 0
    /\ performanceNow - TimeOf(fistSince) = FIST_HOLD_DURATION_MS
    /\ gestureScore = 1 /\ gestureObs.result.gestureScore = 1

C19_FusionBoundsAndMonotone ==
    riskCall.op = "calculateRisk" =>
        /\ riskCall.risk = Min(Max(500 * riskCall.gesture + 3 * riskCall.stress
                                   + 2 * riskCall.motion, 0), 1000)
        /\ riskCall.risk >= 0 /\ riskCall.risk <= 1000
        /\ \A g \in GestureLevels : g >= riskCall.gesture =>
              calculateRisk(g, riskCall.stress, riskCall.motion) >= riskCall.risk
        /\ \A st \in ScorePercents : st >= riskCall.stress =>
              calculateRisk(riskCall.gesture, st, riskCall.motion) >= riskCall.risk
        /\ \A mo \in ScorePercents : mo >= riskCall.motion =>
              calculateRisk(riskCall.gesture, riskCall.stress, mo) >= riskCall.risk

C19_Witness ==
    /\ riskCall.op = "calculateRisk"
    /\ riskCall.gesture = 1 /\ riskCall.stress = 50 /\ riskCall.motion = 25
    /\ riskCall.risk = 700

\* C20: getRiskLevel returns safe below 0.3, moderate from 0.3 up to but not
\* including 0.75, and danger from 0.75 on; 0.3 is moderate and 0.75 is danger.
C20_ClassificationBoundaries ==
    riskCall.op = "getRiskLevel" =>
        /\ riskCall.risk < 300 => riskCall.level = "safe"
        /\ (riskCall.risk >= 300 /\ riskCall.risk < 750) => riskCall.level = "moderate"
        /\ riskCall.risk >= 750 => riskCall.level = "danger"

C20_Witness ==
    /\ riskCall.op = "getRiskLevel" /\ riskCall.risk = 750 /\ riskCall.level = "danger"

\* C21: with gesture score 0 the fused risk is at most 0.5 even with stress
\* and motion both 1 (the largest inputs), so every detection tick with risk > 0.75 read a
\* gesture score of 1, and the sustain timer is armed (Idle to Sustaining)
\* only on such a tick.
C21_GestureNeededToLeaveIdle ==
    [][/\ calculateRisk(0, PercentMax, PercentMax) <= 500
       /\ lastEvent' = "highTick" => gestureScoreRef = 1
       /\ (~SustainPending /\ SustainPending')
             => (lastEvent' = "highTick" /\ gestureScoreRef = 1)
       /\ (MachineState = "Idle" /\ MachineState' = "Sustaining")
             => (lastEvent' = "highTick" /\ gestureScoreRef = 1)]_vars

C21_Witness ==
    /\ lastEvent = "lowTick" /\ isProtectionOn /\ audioEnabled
    /\ audioStressScore = 100 /\ gestureScoreRef = 0
    /\ MachineState = "Idle"

\* C22: every value computeStressScore returns lies in [0,1], and so does
\* previousStressScore in every reachable state, whatever windows, baselines
\* and noise floors the calls were given.
C22_StressScoreRange ==
    /\ previousStressScore >= 0 /\ previousStressScore <= StressMax
    /\ stressCall.op = "compute" =>
          /\ stressCall.returned >= 0 /\ stressCall.returned <= StressMax
          /\ stressCall.clamped >= 0 /\ stressCall.clamped <= StressMax

C22_Witness ==
    /\ stressCall.op = "compute"
    /\ stressCall.previous > StressMax - SPIKE_LIMIT /\ stressCall.previous < StressMax
    /\ stressCall.returned = StressMax /\ previousStressScore = StressMax

\* C23: the noise queue never holds more than 20 entries; a frame without
\* voice appends its RMS at the end and, when the queue was full, drops the
\* oldest entry; noiseFloor is the mean of the queue (rounded down to the
\* model's thousandths) and 0 when the queue is empty.
C23_NoiseQueue ==
    [][/\ Len(noiseSamples') <= 20
       /\ IF noiseSamples' = <<>>
          THEN noiseFloor' = 0
          ELSE /\ noiseFloor' * Len(noiseSamples') <= SeqSum(noiseSamples')
               /\ SeqSum(noiseSamples') < (noiseFloor' + 1) * Len(noiseSamples')
       /\ audioObs'.op = "silentFrame" =>
             /\ noiseSamples' # <<>>
             /\ IF Len(noiseSamples) < 20
                THEN /\ Len(noiseSamples') = Len(noiseSamples) + 1
                     /\ SubSeq(noiseSamples', 1, Len(noiseSamples)) = noiseSamples
                ELSE /\ Len(noiseSamples') = 20
                     /\ SubSeq(noiseSamples', 1, 19) = Tail(noiseSamples)
       /\ audioObs'.op \in {"start", "started", "advance"}
             => noiseSamples' = noiseSamples]_vars

C23_Witness ==
    /\ audioObs.op = "silentFrame"
    /\ Len(noiseSamples) = 20 /\ now > 20 * ProcessingPeriodMs
    /\ noiseSamples[20] = 0 /\ noiseSamples[1] = 60
    /\ noiseFloor = SeqSum(noiseSamples) \div 20

\* C24: after every addSample(value, t), timestamps never decreasing, each
\* retained sample has a timestamp no later than t and less than
\* windowSeconds * 1000 ms before t, the sample just added among them.
C24_SamplesWithinWindow ==
    smootherObs.op = "addSample" =>
        /\ smootherSamples # <<>>
        /\ smootherSamples[Len(smootherSamples)] =
              [value |-> smootherObs.value, timestamp |-> smootherObs.timestamp]
        /\ \A i \in DOMAIN smootherSamples :
              /\ smootherSamples[i].timestamp <= smootherObs.timestamp
              /\ smootherObs.timestamp - smootherSamples[i].timestamp < 5 * 1000

C24_Witness ==
    /\ smootherObs.op = "addSample" /\ smootherObs.adds = 4
    /\ Len(smootherSamples) = 2
    /\ smootherObs.timestamp - smootherSamples[1].timestamp = 2500

\* C25: the first addSample since construction or reset() sets the smoothed
\* value to the sample, and every later addSample sets it to
\* 0.3 * value + 0.7 * (previous smoothed value), whatever the time since the
\* previous sample.
C25_EmaRule ==
    smootherObs.op = "addSample" =>
        IF smootherObs.adds = 1
        THEN smoothedValue = smootherObs.value
        ELSE smoothedValue = (3 * smootherObs.value + 7 * smootherObs.before) \div 10

\* C26: where computeStressScore weighs the scores, the five weights sum to
\* 1.0; with noiseFloor > 0.05 the RMS weight is 0.20 and the pitch weight
\* 0.35 (shifts of -0.05 and +0.05), the others unchanged; with
\* noiseFloor <= 0.05 the weights are 0.30, 0.25, 0.20, 0.15, 0.10.
C26_NoiseCompensatedWeights ==
    stressCall.op = "compute" =>
        \A w \in stressCall.weights :
            /\ w.pitch + w.rms + w.mfcc + w.centroid + w.zcr = 100
            /\ w.mfcc = 20 /\ w.centroid = 15 /\ w.zcr = 10
            /\ IF stressCall.floor > 50
               THEN /\ w.rms = 20 /\ w.rms < 25
                    /\ w.pitch = 35 /\ w.pitch > 30
                    /\ (w.rms - 25) + (w.pitch - 30) = 0
               ELSE w.pitch = 30 /\ w.rms = 25

C26_Witness ==
    /\ stressCall.op = "compute" /\ stressCall.floor = 60
    /\ stressCall.weights = {[pitch |-> 35, rms |-> 20, mfcc |-> 20, centroid |-> 15, zcr |-> 10]}
    /\ stressCall.clamped > 0

\* C27: while the Dashboard is shown with protection and audio on, a stress
\* update from the audio pipeline leaves the detection interval and a pending
\* sustain timer as they are: same timers, same time left.
C27_StressUpdateLeavesTimers ==
    [][(/\ mounted /\ isProtectionOn /\ audioEnabled
        /\ mounted' /\ isProtectionOn' /\ audioEnabled'
        /\ audioStressScore' # audioStressScore)
          => \A id \in TimersOf(timers, "detection") \cup TimersOf(timers, "sustain") :
                id \in DOMAIN timers' /\ timers'[id] = timers[id]]_vars

\* C28: extractAllFeatures on a malformed or zero-length frame throws nothing
\* and returns pitch 0, rms 0, zcr 0, spectralCentroid 0 and 40 zero
\* cepstral coefficients.
C28_ExtractionFailsToZero ==
    (extractCall.op = "extract"
     /\ (~extractCall.frame.ok \/ Len(extractCall.frame.samples) = 0))
        => /\ ~extractCall.result.threw
           /\ extractCall.result.pitch = 0
           /\ extractCall.result.rms = {0}
           /\ extractCall.result.zcr = {0}
           /\ extractCall.result.spectralCentroid = 0
           /\ \A i \in 1..NumMFCC : extractCall.result.mfcc[i] = 0

\* C30: a voiced window observed less than 5 s after the start adds one
\* sample to the calibration samples; a voiced window observed 5 s or more
\* after the start adds nothing, and the baseline it completes is the mean
\* of the samples collected before it.
C30_CalibrationSamples ==
    [][audioObs'.op = "calibrationFrame" =>
          IF now - TimeOf(calibrationStartTime) < CALIBRATION_DURATION_MS
          THEN /\ calibrationSamples'.n = calibrationSamples.n + 1
               /\ baseline' = {}
          ELSE /\ calibrationSamples' = calibrationSamples
               /\ baseline' = {computeBaseline(calibrationSamples)}]_vars

\* C31: within a session the baseline is null while the calibration runs;
\* a step that neither starts nor stops a session takes the baseline from
\* null to a value only by the calibration frame that completes the
\* calibration, and once the baseline has a value such a step leaves the
\* baseline and calibrationSamples as they are.
C31_BaselineFixedAfterCalibration ==
    [][audioObs'.op \notin {"started", "stop"} =>
         /\ (isCalibrating' => baseline' = {})
         /\ (baseline = {} /\ baseline' # {} =>
                /\ audioObs'.op = "calibrationFrame"
                /\ isCalibrating /\ ~isCalibrating')
         /\ (baseline # {} =>
                /\ baseline' = baseline
                /\ calibrationSamples' = calibrationSamples)]_vars

\* A voiced frame was scored against the baseline the calibration computed
\* from several samples, after a silent frame that followed the calibration.
C31_Witness ==
    /\ audioObs.op = "scoringFrame"
    /\ baseline # {}
    /\ calibrationSamples.n >= 2
    /\ noiseSamples # <<>>

\* C32: addSample(value, t) evicts exactly the samples with a timestamp
\* before t - windowSeconds * 1000: a sample whose timestamp equals
\* t - windowSeconds * 1000 is retained, and so is every later one.
C32_EvictsOlderThanWindow ==
    [][smootherObs'.op = "addSample" =>
          LET pushed == Append(smootherSamples, [value |-> smootherObs'.value,
                                                 timestamp |-> smootherObs'.timestamp])
              cutoff == smootherObs'.timestamp - 5 * 1000
          IN  \E k \in 1..Len(pushed) :
                 /\ smootherSamples' = SubSeq(pushed, k, Len(pushed))
                 /\ \A i \in 1..(k - 1) : pushed[i].timestamp < cutoff
                 /\ \A i \in k..Len(pushed) : pushed[i].timestamp >= cutoff]_vars

\* C32 as the code has it: addSample(value, t) evicts exactly the samples with
\* a timestamp at or before t - windowSeconds * 1000; a sample exactly
\* windowSeconds old is evicted, every later one is retained.
C32_EvictsAtOrBeforeCutoff ==
    [][smootherObs'.op = "addSample" =>
          LET pushed == Append(smootherSamples, [value |-> smootherObs'.value,
                                                 timestamp |-> smootherObs'.timestamp])
              cutoff == smootherObs'.timestamp - 5 * 1000
          IN  \E k \in 1..Len(pushed) :
                 /\ smootherSamples' = SubSeq(pushed, k, Len(pushed))
                 /\ \A i \in 1..(k - 1) : pushed[i].timestamp <= cutoff
                 /\ \A i \in k..Len(pushed) : pushed[i].timestamp > cutoff]_vars

\* The second sample came exactly 5000 ms after the first, which was evicted.
C32_Witness ==
    /\ smootherObs.op = "addSample"
    /\ smootherObs.calls = 2 /\ smootherObs.adds = 2
    /\ smootherObs.timestamp = 5000
    /\ Len(smootherSamples) = 1

\* C33: a call of computeStressScore on an empty window or on a window whose
\* mean RMS is below 0.01 returns 0 and leaves previousStressScore at 0,
\* whatever the baseline, the noise floor and the previous score.
C33_SilenceScoresZero ==
    [][\A fm \in Windows, base \in Baselines, floor \in NoiseFloors :
          /\ fm.len = 0 \/ fm.rmsMean < 10
          /\ ComputeStressScore(fm, base, floor)
          => /\ stressCall'.returned = 0
             /\ previousStressScore' = 0]_vars

\* A call that returned before the scoring, after a call that had left a
\* previous score above the spike limit.
C33_Witness ==
    /\ stressCall.op = "compute"
    /\ stressCall.weights = {}
    /\ stressCall.previous > 1500
    /\ stressCall.returned = 0
    /\ previousStressScore = 0

\* C34: the fist confidence is the number of the four fingertips 8, 12, 16
\* and 20 whose distance to the palm centre, the mean of landmarks 0, 5, 9, 13
\* and 17, is below 0.12, divided by 4; it is the same whatever the thumb
\* landmarks are; and the hand is currently a fist exactly when at least 3 of
\* the 4 fingertips are within the threshold.
C34_FistConfidence ==
    fistCall.op = "computeFistConfidence" =>
        LET lm == fistCall.landmarks
            sx == lm[0].x + lm[5].x + lm[9].x + lm[13].x + lm[17].x
            sy == lm[0].y + lm[5].y + lm[9].y + lm[13].y + lm[17].y
            curled == {t \in {8, 12, 16, 20} :
                         (5 * lm[t].x - sx) * (5 * lm[t].x - sx)
                           + (5 * lm[t].y - sy) * (5 * lm[t].y - sy) < (5 * 120) * (5 * 120)}
        IN  /\ 4 * fistCall.confidence = 100 * Cardinality(curled)
            /\ fistCall.currentlyFist <=> Cardinality(curled) >= 3
            /\ \A thumb \in ThumbPositions :
                  fistConfidence([i \in LandmarkIndices |->
                                     IF i \in ThumbIndices THEN thumb ELSE lm[i]])
                     = fistCall.confidence

\* Three fingertips within the threshold of a palm centre that is no
\* landmark, the fourth exactly 0.12 from it, the thumb on the palm: a fist of
\* confidence 0.75.
C34_Witness ==
    /\ fistCall.op = "computeFistConfidence"
    /\ fistCall.landmarks[0] = Point(500, 700)
    /\ fistCall.landmarks[8] = Point(500, 380)
    /\ fistCall.landmarks[12] = Point(560, 400)
    /\ fistCall.landmarks[16] = Point(500, 450)
    /\ fistCall.landmarks[20] = Point(500, 450)
    /\ fistCall.landmarks[4] = Point(500, 500)
    /\ fistCall.confidence = 75
    /\ fistCall.currentlyFist

\* C35: isTrendingUp() is true exactly when at least 3 samples are retained
\* and the values of the three most recent ones are strictly increasing from
\* the oldest to the newest; with fewer than 3 samples it is false.
C35_TrendingUp ==
    smootherObs.op = "isTrendingUp" =>
        LET n == Len(smootherSamples)
        IN  /\ n < 3 => ~smootherObs.trending
            /\ smootherObs.trending <=>
                  /\ n >= 3
                  /\ smootherSamples[n - 2].value < smootherSamples[n - 1].value
                  /\ smootherSamples[n - 1].value < smootherSamples[n].value

\* Four samples are retained, the first above the second, the last three
\* rising: the trend is upward.
C35_Witness ==
    /\ smootherObs.op = "isTrendingUp"
    /\ smootherObs.trending
    /\ Len(smootherSamples) = 4
    /\ smootherSamples[1].value > smootherSamples[2].value

\* C36: at most one countdown ticker is active at any time, and
\* countdownIntervalRef refers to it whenever one is active.
C36_SingleCountdownTicker ==
    /\ Cardinality(CountdownTickers) <= 1
    /\ CountdownTickers # {} => countdownIntervalRef \in CountdownTickers

\* C37: highRiskTimerRef is non-null exactly when a sustain timeout is
\* pending, and then it refers to that timeout.
C37_HighRiskRefTracksTimeout ==
    /\ highRiskTimerRef # 0 <=> SustainPending
    /\ SustainPending => TimersOf(timers, "sustain") = {highRiskTimerRef}

\* C38: within a session the stress score of an update published for a frame
\* exceeds the score of the update published before it by at most 0.15.
C38_PublishedScoreRisesSlowly ==
    [][(isRunning /\ audioObs'.op \in {"silentFrame", "calibrationFrame", "scoringFrame"})
          => \A u \in audioObs'.update :
                u.stressScore - currentStressScore <= 1500]_vars

\* C39: whatever the order of the start() and stop() calls and of the
\* resolutions of start(), at most one processing interval is active; and once
\* no start() is pending and stop() was issued last, the pipeline is not
\* running, no interval is active and no update is emitted.
C39_StartStopRaces ==
    [][/\ Cardinality(liveIntervals') <= 1
       /\ (lastIssued' = "stop" /\ startsPending' = 0) =>
             (~isRunning' /\ liveIntervals' = {})
       /\ (lastIssued = "stop" /\ startsPending = 0 /\ lastIssued' = "stop") =>
             audioObs'.update = NoUpdate]_vars

\* C40: while the pipeline is running, isCalibrating is true exactly when
\* the baseline is null, and every update emitted carries the two values as
\* they are when it is emitted.
C40_CalibratingIffNoBaseline ==
    /\ isRunning => (isCalibrating <=> baseline = {})
    /\ \A u \in audioObs.update :
          /\ u.isCalibrating = isCalibrating
          /\ u.baseline = baseline
          /\ u.isCalibrating <=> u.baseline = {}

\* The frame that completed the calibration published the baseline it
\* computed, with isCalibrating false.
C40_Witness ==
    /\ isRunning
    /\ audioObs.op = "calibrationFrame" /\ audioObs.wasCalibrating
    /\ ~isCalibrating /\ baseline # {}
    /\ audioObs.update = Update(0, FALSE, baseline)

====
